---- MODULE Spec2Model ----
(***************************************************************************)
(* Nutrition aggregation and efficiency-metrics engine of BiteBuilder      *)
(* (frontend/src/lib/nutrition.ts, frontend/src/lib/metrics.ts), with the  *)
(* price hook, the day totals and the response interceptor of apiClient.   *)
(*                                                                         *)
(* JavaScript values are records [t, n, d, s]: t is the kind ("num",       *)
(* "nan", "inf", "ninf", "null", "undef", "str", and "throw" for a call    *)
(* that raised a TypeError), n/d the numerator and                         *)
(* denominator of a finite number in lowest terms (d > 0), s the           *)
(* characters of a string (a sequence of one-character atoms).  Finite     *)
(* numbers are exact rationals: the binary rounding of IEEE doubles is     *)
(* not modelled, NaN and the infinities are; SpecDouble alone sums as the  *)
(* number type does, with the rounding of each addition.  Loops of the     *)
(* source are recursive operators over the position in the array or        *)
(* string.                                                                 *)
(***************************************************************************)
EXTENDS Integers, Sequences, FiniteSets

VARIABLES meal, product, size, value, thr, nutrientCode, fn, ret, pre, calls, item,
          eatenMeals, retriedForCsrf, requests

vars ==
  <<meal, product, size, value, thr, nutrientCode, fn, ret, pre, calls, item,
    eatenMeals, retriedForCsrf, requests>>

(***************************************************************************)
(* Numbers                                                                 *)
(***************************************************************************)
Abs(x) == IF x < 0 THEN -x ELSE x

RECURSIVE Gcd(_, _)
Gcd(a, b) == IF b = 0 THEN a ELSE Gcd(b, a % b)

Pow10(k) == CASE k = 0 -> 1 [] k = 1 -> 10 [] k = 2 -> 100 [] k = 3 -> 1000
              [] k = 4 -> 10000 [] k = 5 -> 100000 [] OTHER -> 1000000

Reduced(n, d, g) ==
  [t |-> "num", n |-> (IF d < 0 THEN -1 ELSE 1) * (n \div g),
   d |-> (IF d < 0 THEN -1 ELSE 1) * (d \div g), s |-> <<>>]

\* The finite number n/d, in lowest terms with a positive denominator.
Num(n, d) == Reduced(n, d, Gcd(Abs(n), Abs(d)))

Whole(n) == [t |-> "num", n |-> n, d |-> 1, s |-> <<>>]
NaN      == [t |-> "nan", n |-> 0, d |-> 1, s |-> <<>>]
PosInf   == [t |-> "inf", n |-> 0, d |-> 1, s |-> <<>>]
NegInf   == [t |-> "ninf", n |-> 0, d |-> 1, s |-> <<>>]
Null     == [t |-> "null", n |-> 0, d |-> 1, s |-> <<>>]
Undef    == [t |-> "undef", n |-> 0, d |-> 1, s |-> <<>>]
Str(cs)  == [t |-> "str", n |-> 0, d |-> 1, s |-> cs]
\* The outcome of a call that raises (a TypeError).
Throw    == [t |-> "throw", n |-> 0, d |-> 1, s |-> <<>>]

IsNum(v)      == v.t = "num"
IsNumeric(v)  == v.t \in {"num", "nan", "inf", "ninf"}
IsNullish(v)  == v.t \in {"null", "undef"}
\* Sign of a numeric value that is not NaN.
Sign(v) == CASE v.t = "inf" -> 1 [] v.t = "ninf" -> -1
             [] OTHER -> IF v.n > 0 THEN 1 ELSE IF v.n < 0 THEN -1 ELSE 0
Signed(sg) == IF sg > 0 THEN PosInf ELSE IF sg < 0 THEN NegInf ELSE NaN

\* a + b, a * b, a / b on numbers (IEEE special values kept, -0 not distinguished).
JsAdd(a, b) ==
  CASE a.t = "nan" \/ b.t = "nan" -> NaN
    [] IsNum(a) /\ IsNum(b) -> Num(a.n * b.d + b.n * a.d, a.d * b.d)
    [] IsNum(a) -> b
    [] IsNum(b) -> a
    [] OTHER -> IF a.t = b.t THEN a ELSE NaN

JsMul(a, b) ==
  CASE a.t = "nan" \/ b.t = "nan" -> NaN
    [] IsNum(a) /\ IsNum(b) -> Num(a.n * b.n, a.d * b.d)
    [] OTHER -> Signed(Sign(a) * Sign(b))

JsDiv(a, b) ==
  CASE a.t = "nan" \/ b.t = "nan" -> NaN
    [] IsNum(a) /\ IsNum(b) ->
         IF b.n = 0 THEN Signed(Sign(a)) ELSE Num(a.n * b.d, a.d * b.n)
    [] IsNum(a) -> Whole(0)
    [] IsNum(b) -> Signed(Sign(a) * (IF b.n < 0 THEN -1 ELSE 1))
    [] OTHER -> NaN

\* a < b, a <= b, a > b on numbers; every comparison with NaN is false.
JsLt(a, b) ==
  CASE a.t = "nan" \/ b.t = "nan" -> FALSE
    [] IsNum(a) /\ IsNum(b) -> a.n * b.d < b.n * a.d
    [] a.t = "ninf" -> b.t # "ninf"
    [] b.t = "inf" -> a.t # "inf"
    [] OTHER -> FALSE
JsLe(a, b) == a.t # "nan" /\ b.t # "nan" /\ (a = b \/ JsLt(a, b))
JsGt(a, b) == JsLt(b, a)
JsGe(a, b) == JsLe(b, a)

\* Number.isFinite(v), Number.isNaN(v)
NumberIsFinite(v) == v.t = "num"
NumberIsNaN(v)    == v.t = "nan"

\* Truthiness of a value: 0, NaN, "", null and undefined are falsy.
Truthy(v) ==
  CASE v.t = "num" -> v.n # 0
    [] v.t = "str" -> Len(v.s) > 0
    [] v.t \in {"inf", "ninf"} -> TRUE
    [] OTHER -> FALSE

\* a || b, a ?? b
JsOr(a, b) == IF Truthy(a) THEN a ELSE b
Coalesce(a, b) == IF IsNullish(a) THEN b ELSE a

\* Math.round(x): the nearest integer, halves toward plus infinity
\* (\div rounds toward minus infinity).
MathRound(x) ==
  IF ~IsNum(x) THEN x ELSE Whole((2 * x.n + x.d) \div (2 * x.d))

\* +x.toFixed(k): x to k decimals, halves away from zero.
ToFixed(x, k) ==
  IF ~IsNum(x) THEN x
  ELSE Num((IF x.n < 0 THEN -1 ELSE 1)
             * ((2 * Abs(x.n) * Pow10(k) + x.d) \div (2 * x.d)), Pow10(k))

\* Math.max(0, x), Math.min(1, x)
MathMax0(x) ==
  IF x.t = "nan" THEN NaN ELSE IF JsLt(x, Whole(0)) THEN Whole(0) ELSE x
MathMin1(x) ==
  IF x.t = "nan" THEN NaN ELSE IF JsLt(x, Whole(1)) THEN x ELSE Whole(1)

(***************************************************************************)
(* Strings                                                                 *)
(***************************************************************************)
Digits == {"0", "1", "2", "3", "4", "5", "6", "7", "8", "9"}
DigitVal(c) ==
  CASE c = "0" -> 0 [] c = "1" -> 1 [] c = "2" -> 2 [] c = "3" -> 3
    [] c = "4" -> 4 [] c = "5" -> 5 [] c = "6" -> 6 [] c = "7" -> 7
    [] c = "8" -> 8 [] OTHER -> 9

\* The en dash (U+2013) is the atom "EN", a tab "TAB".
EnDash == "EN"
IsSpace(c) == c \in {" ", "TAB"}

\* String.prototype.toLowerCase, per character.
LowerChar(c) ==
  CASE c = "A" -> "a" [] c = "B" -> "b" [] c = "C" -> "c" [] c = "E" -> "e"
    [] c = "G" -> "g" [] c = "K" -> "k" [] c = "L" -> "l" [] c = "M" -> "m"
    [] c = "P" -> "p" [] c = "R" -> "r" [] c = "S" -> "s" [] OTHER -> c
toLowerCase(cs) == [i \in 1..Len(cs) |-> LowerChar(cs[i])]

\* s.replace(/\s+/g, "")
stripSpaces(cs) == SelectSeq(cs, LAMBDA c : ~IsSpace(c))

\* String.prototype.trim
RECURSIVE trimLeft(_)
trimLeft(cs) ==
  IF cs # <<>> /\ IsSpace(Head(cs)) THEN trimLeft(Tail(cs)) ELSE cs
RECURSIVE trimRight(_)
trimRight(cs) ==
  IF cs # <<>> /\ IsSpace(cs[Len(cs)])
  THEN trimRight(SubSeq(cs, 1, Len(cs) - 1)) ELSE cs
trim(cs) == trimRight(trimLeft(cs))

\* String.prototype.includes
includes(cs, sub) ==
  \E i \in 0..(Len(cs) - Len(sub)) : SubSeq(cs, i + 1, i + Len(sub)) = sub

\* The position after the longest run of digits that starts at i.
RECURSIVE DigitsEnd(_, _)
DigitsEnd(cs, i) ==
  IF i <= Len(cs) /\ cs[i] \in Digits THEN DigitsEnd(cs, i + 1) ELSE i

\* The position after a match of \d+(?:\.\d+)? whose digits run from i to
\* e - 1; 0 when there is no digit at i.  The greedy match is the only one:
\* what follows a shorter one is a digit or a dot.
FractionEnd(cs, i, e) ==
  IF e = i THEN 0
  ELSE IF e + 1 <= Len(cs) /\ cs[e] = "." /\ cs[e + 1] \in Digits
       THEN DigitsEnd(cs, e + 1)
       ELSE e
NumberEnd(cs, i) == FractionEnd(cs, i, DigitsEnd(cs, i))

RECURSIVE DigitsValue(_)
DigitsValue(ds) ==
  IF ds = <<>> THEN 0
  ELSE 10 * DigitsValue(SubSeq(ds, 1, Len(ds) - 1)) + DigitVal(ds[Len(ds)])

\* The number with integer digits ip and fraction digits fp; NaN with neither.
DecimalOf(ip, fp) ==
  IF ip = <<>> /\ fp = <<>> THEN NaN
  ELSE Num(DigitsValue(ip) * Pow10(Len(fp)) + DigitsValue(fp), Pow10(Len(fp)))

\* The number written in cs[1..f-1], whose integer digits end before e.
DecimalAt(cs, e, f) ==
  DecimalOf(SubSeq(cs, 1, e - 1), IF f > e THEN SubSeq(cs, e + 1, f - 1) ELSE <<>>)

\* The longest prefix digits[.digits] of cs, as a number.
DecimalPrefixAt(cs, e) ==
  DecimalAt(cs, e, IF e <= Len(cs) /\ cs[e] = "." THEN DigitsEnd(cs, e + 1) ELSE e)
DecimalPrefix(cs) == DecimalPrefixAt(cs, DigitsEnd(cs, 1))

Negate(v) == IF IsNum(v) THEN Num(-v.n, v.d) ELSE v

\* parseFloat without the leading blanks: an optional sign, then the prefix.
parseSigned(cs) ==
  IF cs # <<>> /\ Head(cs) = "-" THEN Negate(DecimalPrefix(Tail(cs)))
  ELSE IF cs # <<>> /\ Head(cs) = "+" THEN DecimalPrefix(Tail(cs))
  ELSE DecimalPrefix(cs)

\* parseFloat(string): leading blanks, an optional sign, then digits with an
\* optional fraction; the longest such prefix, NaN when there is none.
\* (Exponents and the word Infinity are not in the inputs drawn.)
parseFloat(cs) == parseSigned(trimLeft(cs))

\* Whether cs is a decimal number from its first character to its last.
WholeDecimalAt(cs, e) ==
  (IF e <= Len(cs) /\ cs[e] = "." THEN DigitsEnd(cs, e + 1) ELSE e) = Len(cs) + 1
WholeDecimal(cs) ==
  IF cs # <<>> /\ Head(cs) \in {"-", "+"}
  THEN WholeDecimalAt(Tail(cs), DigitsEnd(Tail(cs), 1))
  ELSE WholeDecimalAt(cs, DigitsEnd(cs, 1))

\* Number(string): the trimmed string must be a number throughout; "" is 0.
StringToNumber(cs) ==
  IF cs = <<>> THEN Whole(0)
  ELSE IF WholeDecimal(cs) THEN parseSigned(cs) ELSE NaN

\* Number(v): ToNumber of a primitive.
JsNumber(v) ==
  CASE IsNumeric(v) -> v
    [] v.t = "null" -> Whole(0)
    [] v.t = "str" -> StringToNumber(trim(v.s))
    [] OTHER -> NaN

FiniteOr0(n) == IF NumberIsFinite(n) THEN n ELSE Whole(0)

\* num(v, fb = 0): "safe numeric parse".
num(v) ==
  FiniteOr0(CASE v.t = "str" -> parseFloat(v.s)
              [] IsNumeric(v) -> v
              [] OTHER -> NaN)

(***************************************************************************)
(* parseSizeToGrams                                                        *)
(***************************************************************************)
Dashes == {"-", EnDash}

\* Whether /(\d+(?:\.\d+)?)[-EN](\d+(?:\.\d+)?)/ matches at position i, the
\* first number ending before e1.
RangeAt(cs, e1) ==
  /\ e1 > 0
  /\ e1 <= Len(cs)
  /\ cs[e1] \in Dashes
  /\ NumberEnd(cs, e1 + 1) > 0

\* The mean (a + b) / 2 of the two numbers of a range match at i.
RangeMean(cs, i, e1) ==
  JsDiv(JsAdd(DecimalPrefix(SubSeq(cs, i, e1 - 1)),
              DecimalPrefix(SubSeq(cs, e1 + 1, Len(cs)))), Whole(2))

\* s.match(range), scanning the start position from i: <<(a + b) / 2>> of
\* the leftmost match, <<>> when there is none.
RECURSIVE rangeMatch(_, _)
rangeMatch(cs, i) ==
  IF i > Len(cs) THEN <<>>
  ELSE IF RangeAt(cs, NumberEnd(cs, i)) THEN <<RangeMean(cs, i, NumberEnd(cs, i))>>
  ELSE rangeMatch(cs, i + 1)

\* The unit (kg|g|ml) at position i, tried in that order; "" when none.
UnitAt(cs, i) ==
  CASE i + 1 <= Len(cs) /\ cs[i] = "k" /\ cs[i + 1] = "g" -> "kg"
    [] i <= Len(cs) /\ cs[i] = "g" -> "g"
    [] i + 1 <= Len(cs) /\ cs[i] = "m" /\ cs[i + 1] = "l" -> "ml"
    [] OTHER -> ""

\* The grams of a single match: val * 1000 for kg, val for ml and g.
unitGrams(val, unit) ==
  CASE unit = "kg" -> JsMul(val, Whole(1000))
    [] unit = "ml" -> val
    [] unit = "g" -> val
    [] OTHER -> Null

SingleAt(cs, e) == e > 0 /\ UnitAt(cs, e) # ""

\* s.match(/(\d+(?:\.\d+)?)(kg|g|ml)/) and the lines after it, scanning the
\* start position from i: the grams of the leftmost match, Null without one.
RECURSIVE parseSingle(_, _)
parseSingle(cs, i) ==
  IF i > Len(cs) THEN Null
  ELSE IF SingleAt(cs, NumberEnd(cs, i))
       THEN unitGrams(DecimalPrefix(SubSeq(cs, i, Len(cs))), UnitAt(cs, NumberEnd(cs, i)))
       ELSE parseSingle(cs, i + 1)

\* The range branch on the normalised string s1 with range match rm, then
\* the single-unit branch.
sizeOf(s1, rm) ==
  IF rm # <<>> /\ includes(s1, <<"k", "g">>) THEN JsMul(rm[1], Whole(1000))
  ELSE IF rm # <<>> /\ includes(s1, <<"g">>) THEN rm[1]
  ELSE parseSingle(s1, 1)

sizeOfNormalised(s1) == sizeOf(s1, rangeMatch(s1, 1))

\* parseSizeToGrams(size): a number of grams, null, or a TypeError when size
\* is a truthy non-string (it has no toLowerCase).
parseSizeToGrams(sz) ==
  IF ~Truthy(sz) THEN Null
  ELSE IF sz.t # "str" THEN Throw
  ELSE sizeOfNormalised(stripSpaces(toLowerCase(sz.s)))

(***************************************************************************)
(* Products                                                                *)
(*                                                                         *)
(* A product is a record: present (FALSE for a null/undefined product),    *)
(* product_nutrients (a sequence of [code, amount]; code "" when the entry *)
(* has no nutrient.code), nutrition and nutrients (NoMap or a function     *)
(* from keys to entries), and the pricing fields as JavaScript values.     *)
(* A map entry is [p100, value]: p100 is a primitive value or an object    *)
(* Obj(value, amount).                                                     *)
(***************************************************************************)
NoMap == [t |-> "undef"]
MapOf(f) == [t |-> "map", m |-> f]
Obj(v, a) == [t |-> "obj", value |-> v, amount |-> a]
Entry(p, v) == [p100 |-> p, value |-> v]
PN(c, a) == [code |-> c, amount |-> a]

NoProduct ==
  [present |-> FALSE, product_nutrients |-> <<>>, nutrition |-> NoMap,
   nutrients |-> NoMap, cup_price_value |-> Undef, cup_price_unit |-> Undef,
   price_current |-> Undef, size |-> Undef, health_star |-> Undef]

\* String.prototype.toLowerCase on the nutrient codes that occur.
LowerCode(c) ==
  CASE c = "Protein" -> "protein"
    [] c = "PROTEIN" -> "protein"
    [] c = "Fat" -> "fat"
    [] c = "FAT_TOTAL" -> "fat_total"
    [] c = "FATS_TOTAL" -> "fats_total"
    [] c = "Energy_Kcal" -> "energy_kcal"
    [] c = "Energy_KJ" -> "energy_kj"
    [] c = "SALT" -> "salt"
    [] c = "Na" -> "na"
    [] OTHER -> c

\* The canonical alias mapping; <<>> for a code without aliases.
aliases(code) ==
  CASE code = "fat_total" -> <<"fat", "total_fat", "total_fats", "fat_total", "fats_total">>
    [] code = "energy_kcal" -> <<"energy", "energy_kcal", "calories">>
    [] code = "energy_kj" -> <<"energy_kj", "kj">>
    [] code = "sugars" -> <<"sugar", "total_sugar", "sugars_total">>
    [] code = "fiber" -> <<"fibre", "fiber_total">>
    [] code = "sodium" -> <<"salt", "sodium", "na">>
    [] code = "potassium" -> <<"k", "potassium", "potassium_k">>
    [] code = "calcium" -> <<"ca", "calcium">>
    [] code = "magnesium" -> <<"mg", "magnesium">>
    [] code = "iron" -> <<"fe", "iron">>
    [] code = "zinc" -> <<"zn", "zinc">>
    [] code = "vitamin_c" -> <<"vit_c", "ascorbic_acid", "vitamin_c">>
    [] code = "vitamin_d" -> <<"vit_d", "cholecalciferol", "vitamin_d">>
    [] code = "vitamin_b12" -> <<"vit_b12", "cobalamin", "vitamin_b12">>
    [] code = "folate" -> <<"folate", "vit_b9", "folic_acid">>
    [] code = "vitamin_a" -> <<"vit_a", "retinol", "retinol_equiv">>
    [] code = "protein" -> <<"protein", "prot">>
    [] OTHER -> <<>>

lowerAll(ts) == [i \in 1..Len(ts) |-> LowerCode(ts[i])]
targetsOf(code) == lowerAll(<<code>> \o aliases(code))

InSeq(x, sq) == \E i \in 1..Len(sq) : sq[i] = x

\* Step 1, the relational list from entry i on: the first entry whose
\* lower-cased code is a target decides; <<>> when no entry matches.
RECURSIVE relationalLookup(_, _, _)
relationalLookup(arr, targets, i) ==
  IF i > Len(arr) THEN <<>>
  ELSE IF arr[i].code # "" /\ InSeq(LowerCode(arr[i].code), targets)
       THEN <<JsOr(JsNumber(arr[i].amount), Whole(0))>>
       ELSE relationalLookup(arr, targets, i + 1)

\* entry?.per_100?.value ?? entry?.per_100?.amount ?? entry?.per_100 ??
\* entry?.value ?? 0
entryVal(p, v) ==
  CASE p.t = "obj" /\ ~IsNullish(p.value) -> p.value
    [] p.t = "obj" /\ ~IsNullish(p.amount) -> p.amount
    [] p.t = "obj" -> p
    [] ~IsNullish(p) -> p
    [] ~IsNullish(v) -> v
    [] OTHER -> Whole(0)

\* Number(val); an object is NaN.
parsedVal(val) == IF val.t = "obj" THEN NaN ELSE JsNumber(val)

PositiveFinite(x) == NumberIsFinite(x) /\ JsGt(x, Whole(0))

\* Step 2, the flattened map from target i on: the first target key whose
\* entry parses to a finite positive number decides; <<>> when none does.
RECURSIVE mapLookup(_, _, _)
mapLookup(m, targets, i) ==
  IF i > Len(targets) THEN <<>>
  ELSE IF targets[i] \in DOMAIN m
          /\ PositiveFinite(parsedVal(entryVal(m[targets[i]].p100, m[targets[i]].value)))
       THEN <<parsedVal(entryVal(m[targets[i]].p100, m[targets[i]].value))>>
       ELSE mapLookup(m, targets, i + 1)

\* product.nutrition || product.nutrients
nutritionSource(p) == IF p.nutrition.t = "map" THEN p.nutrition ELSE p.nutrients

mapStep(src, targets) ==
  IF src.t = "map" THEN mapLookup(src.m, targets, 1) ELSE <<>>

firstFound(rel, p, targets) ==
  IF rel # <<>> THEN rel ELSE mapStep(nutritionSource(p), targets)

\* Steps 1 and 2 of per100g for the targets; <<>> when neither resolves.
lookupTargets(p, targets) ==
  firstFound(relationalLookup(p.product_nutrients, targets, 1), p, targets)

\* What a call of per100g that cannot recurse returns: the match, or 0.
orZero(found) == IF found # <<>> THEN found[1] ELSE Whole(0)

\* per100g(product, "energy_kj") || per100g(product, "energy") ||
\* per100g(product, "energy-kj"), from code i of the list on.
KjCodes == <<"energy_kj", "energy", "energy-kj">>
RECURSIVE kjFallback(_, _)
kjFallback(p, i) ==
  IF i >= Len(KjCodes) THEN orZero(lookupTargets(p, targetsOf(KjCodes[i])))
  ELSE JsOr(orZero(lookupTargets(p, targetsOf(KjCodes[i]))), kjFallback(p, i + 1))

\* kJ -> kcal
KJ_PER_KCAL == Num(4184, 1000)
kjToKcal(kj) == IF Truthy(kj) THEN JsDiv(kj, KJ_PER_KCAL) ELSE Whole(0)

\* Step 3 of per100g, after steps 1 and 2 found `found`.
derived(p, code, found) ==
  IF found # <<>> THEN found[1]
  ELSE IF code = "energy_kcal" THEN kjToKcal(kjFallback(p, 1))
  ELSE Whole(0)

\* per100g(product, code)
per100g(p, code) ==
  IF ~p.present THEN Whole(0)
  ELSE derived(p, code, lookupTargets(p, targetsOf(code)))

(***************************************************************************)
(* aggregateMealTotals                                                     *)
(***************************************************************************)
NutrientFields ==
  <<"energy_kcal", "energy_kj", "protein", "fat_total", "fat_saturated",
    "carbohydrate", "sugars", "fiber", "sodium", "potassium", "calcium",
    "magnesium", "iron", "zinc", "vitamin_c", "vitamin_d", "vitamin_b12",
    "folate", "vitamin_a">>
NutrientSet == {NutrientFields[i] : i \in 1..Len(NutrientFields)}
TotalsFields == NutrientSet \cup {"price_total"}

Rec(f) == [t |-> "rec", f |-> f]

\* A variant of zeroTotals that starts from the totals of the previous call.
zeroTotalsCarried ==
  IF fn = "aggregateMealTotals" /\ pre # Throw THEN pre
  ELSE [k \in TotalsFields |-> Whole(0)]

\* A variant of zeroTotals that leaves price_total unset.
zeroTotalsUnsetPrice ==
  [k \in TotalsFields |-> IF k = "price_total" THEN Undef ELSE Whole(0)]

\* The totals object as constructed: every field 0.
zeroTotals == [k \in TotalsFields |-> Whole(0)]

Item(p, q) == [product |-> p, quantity |-> q]

\* No item at hand.
NoItem == Item(NoProduct, Undef)

\* A variant of cupScalePerGram that tries 1g before 1kg.
cupScalePerGramGramFirst(v, unit) ==
  CASE includes(unit, <<"1", "g">>) -> v
    [] includes(unit, <<"1", "k", "g">>) -> JsDiv(v, Whole(1000))
    [] includes(unit, <<"1", "0", "0", "g">>) -> JsDiv(v, Whole(100))
    [] includes(unit, <<"1", "l">>) -> JsDiv(v, Whole(1000))
    [] includes(unit, <<"1", "0", "0", "m", "l">>) -> JsDiv(v, Whole(100))
    [] includes(unit, <<"1", "m", "l">>) -> v
    [] OTHER -> Null

\* The unit branches of the aggregator's cup price, on the normalised unit.
cupScalePerGram(v, unit) ==
  CASE includes(unit, <<"1", "k", "g">>) -> JsDiv(v, Whole(1000))
    [] includes(unit, <<"1", "0", "0", "g">>) -> JsDiv(v, Whole(100))
    [] includes(unit, <<"1", "g">>) -> v
    [] includes(unit, <<"1", "l">>) -> JsDiv(v, Whole(1000))
    [] includes(unit, <<"1", "0", "0", "m", "l">>) -> JsDiv(v, Whole(100))
    [] includes(unit, <<"1", "m", "l">>) -> v
    [] OTHER -> Null

\* The cup-price branch of the aggregator: the price per gram, Null when the
\* cup fields are falsy or the unit has none of the substrings, Throw when the
\* unit is a truthy non-string.
cupPricePerGram(p) ==
  IF ~(Truthy(p.cup_price_value) /\ Truthy(p.cup_price_unit)) THEN Null
  ELSE IF p.cup_price_unit.t # "str" THEN Throw
  ELSE cupScalePerGram(p.cup_price_value, trim(toLowerCase(p.cup_price_unit.s)))

\* totalPrice / sizeGrams when both are positive (parsed ?? 0 is the size).
priceOverSize(totalPrice, parsed) ==
  IF parsed = Throw THEN Throw
  ELSE IF JsGt(totalPrice, Whole(0)) /\ JsGt(Coalesce(parsed, Whole(0)), Whole(0))
       THEN JsDiv(totalPrice, Coalesce(parsed, Whole(0)))
       ELSE Null

\* The fallback branch: price_current / parsed size.
fallbackPricePerGram(p) ==
  priceOverSize(num(p.price_current), parseSizeToGrams(p.size))

orFallback(cup, fb) ==
  IF fb = Throw THEN Throw ELSE IF fb = Null THEN cup ELSE fb

\* A variant of cupOrFallback that prefers the shelf price to the cup price.
cupOrFallbackShelfFirst(cup, p) == orFallback(cup, fallbackPricePerGram(p))

\* The fallback runs only when the cup price is falsy.
cupOrFallback(cup, p) ==
  IF cup = Throw THEN Throw
  ELSE IF Truthy(cup) THEN cup
  ELSE orFallback(cup, fallbackPricePerGram(p))

\* unitPricePerGram of one item's product, as the loop body leaves it.
unitPricePerGram(p) == cupOrFallback(cupPricePerGram(p), p)

\* A variant of gramsOf without the clamp at 0.
gramsOfUnclamped(it) == num(it.quantity)

\* grams = Math.max(0, num(item?.quantity))
gramsOf(it) == MathMax0(num(it.quantity))

\* Whether the loop body runs for the item (it is not skipped by continue).
itemCounted(it) == Truthy(gramsOf(it)) /\ it.product.present

\* A variant of addCounted that skips the whole item when it has no price.
addCountedPricedOnly(totals, prod, grams, unit) ==
  IF unit = Throw THEN Throw
  ELSE IF ~Truthy(unit) THEN totals
  ELSE [k \in TotalsFields |->
          IF k = "price_total" THEN JsAdd(totals[k], JsMul(unit, grams))
          ELSE JsAdd(totals[k], JsMul(per100g(prod, k), JsDiv(grams, Whole(100))))]

\* A variant of addCounted that rounds each contribution before adding it.
addCountedRounded(totals, prod, grams, unit) ==
  IF unit = Throw THEN Throw
  ELSE [k \in TotalsFields |->
          CASE k = "price_total" ->
                 IF Truthy(unit) THEN JsAdd(totals[k], ToFixed(JsMul(unit, grams), 2))
                 ELSE totals[k]
            [] k \in {"energy_kcal", "energy_kj"} ->
                 JsAdd(totals[k],
                       MathRound(JsMul(per100g(prod, k), JsDiv(grams, Whole(100)))))
            [] k = "protein" ->
                 JsAdd(totals[k],
                       ToFixed(JsMul(per100g(prod, k), JsDiv(grams, Whole(100))), 1))
            [] OTHER ->
                 JsAdd(totals[k], JsMul(per100g(prod, k), JsDiv(grams, Whole(100))))]

\* The loop body for a counted item of `grams` grams and unit price `unit`.
addCounted(totals, prod, grams, unit) ==
  IF unit = Throw THEN Throw
  ELSE [k \in TotalsFields |->
          IF k = "price_total"
          THEN IF Truthy(unit) THEN JsAdd(totals[k], JsMul(unit, grams))
               ELSE totals[k]
          ELSE JsAdd(totals[k], JsMul(per100g(prod, k), JsDiv(grams, Whole(100))))]

\* One pass of the loop body over the totals; Throw when the body raises.
addItem(totals, it) ==
  IF totals = Throw THEN Throw
  ELSE IF ~itemCounted(it) THEN totals
  ELSE addCounted(totals, it.product, gramsOf(it), unitPricePerGram(it.product))

\* The loop over meal.items, from the first item to the last.
RECURSIVE accumulateTotals(_)
accumulateTotals(items) ==
  IF items = <<>> THEN zeroTotals
  ELSE addItem(accumulateTotals(SubSeq(items, 1, Len(items) - 1)), items[Len(items)])

\* The rounding that ends aggregateMealTotals.
roundTotals(totals) ==
  IF totals = Throw THEN Throw
  ELSE Rec([k \in TotalsFields |->
              CASE k \in {"energy_kcal", "energy_kj"} -> MathRound(totals[k])
                [] k = "protein" -> ToFixed(totals[k], 1)
                [] k = "price_total" -> ToFixed(totals[k], 2)
                [] OTHER -> totals[k]])

aggregateMealTotals(items) == roundTotals(accumulateTotals(items))

\* The nutrients of the record mealItemNutrition returns.
ItemFields ==
  {"energy_kcal", "energy_kj", "protein", "fat_total", "fat_saturated",
   "carbohydrate", "sugars", "fiber", "sodium", "potassium", "calcium", "iron",
   "magnesium", "cholesterol", "zinc", "vitamin_c", "vitamin_d", "vitamin_b12"}

\* A variant of itemGrams with the aggregator's clamp at 0.
itemGramsClamped(it) == MathMax0(num(it.quantity))

\* grams = num(item?.quantity)
itemGrams(it) == num(it.quantity)

\* The record of one item of `grams` grams, each field to 1 decimal.
itemRecord(prod, grams) ==
  Rec([k \in ItemFields |->
         ToFixed(JsMul(per100g(prod, k), JsDiv(grams, Whole(100))), 1)])

mealItemNutrition(it) ==
  IF ~it.product.present \/ ~Truthy(itemGrams(it)) THEN Null
  ELSE itemRecord(it.product, itemGrams(it))

(***************************************************************************)
(* metrics.ts                                                              *)
(***************************************************************************)
\* A variant of cupScalePerKg that compares the whole unit with each token.
cupScalePerKgExact(val, unit) ==
  CASE unit = <<"1", "k", "g">> -> val
    [] unit = <<"1", "0", "0", "g">> -> JsMul(val, Whole(10))
    [] unit = <<"1", "g">> -> JsMul(val, Whole(1000))
    [] unit = <<"1", "l">> -> val
    [] unit = <<"1", "0", "0", "m", "l">> -> JsMul(val, Whole(10))
    [] unit = <<"1", "m", "l">> -> JsMul(val, Whole(1000))
    [] OTHER -> Null

\* The unit branches of normalizePricePerKg, on the normalised unit.
cupScalePerKg(val, unit) ==
  CASE includes(unit, <<"1", "k", "g">>) -> val
    [] includes(unit, <<"1", "0", "0", "g">>) -> JsMul(val, Whole(10))
    [] includes(unit, <<"1", "g">>) -> JsMul(val, Whole(1000))
    [] includes(unit, <<"1", "l">>) -> val
    [] includes(unit, <<"1", "0", "0", "m", "l">>) -> JsMul(val, Whole(10))
    [] includes(unit, <<"1", "m", "l">>) -> JsMul(val, Whole(1000))
    [] OTHER -> Null

\* normalizePricePerKg(product): $/kg from the cup price, or Null.
normalizePricePerKg(p) ==
  IF ~p.present \/ ~Truthy(p.cup_price_value) \/ ~Truthy(p.cup_price_unit) THEN Null
  ELSE IF p.cup_price_unit.t # "str" THEN Throw
  ELSE cupScalePerKg(p.cup_price_value, trim(toLowerCase(p.cup_price_unit.s)))

E_TARGET == 20
DENSITY_CEILING == 25

\* a/b <= n/d for a, n >= 0 and b, d > 0, by comparing the continued
\* fractions (no product is formed, so nothing overflows).
RECURSIVE RatLe(_, _, _, _)
RatLe(a, b, n, d) ==
  IF a \div b # n \div d THEN a \div b < n \div d
  ELSE IF a % b = 0 THEN TRUE
  ELSE IF n % d = 0 THEN FALSE
  ELSE RatLe(d, n % d, b, a % b)

\* The largest m in lo..hi with ((2m - 1) / 2000)^2 <= n/d, by bisection:
\* m / 1000 is sqrt(n/d) to 3 decimals.
RECURSIVE SqrtSearch(_, _, _, _)
SqrtSearch(n, d, lo, hi) ==
  IF lo >= hi THEN lo
  ELSE IF RatLe((lo + hi) * (lo + hi), 4000000, n, d)
       THEN SqrtSearch(n, d, (lo + hi + 1) \div 2, hi)
       ELSE SqrtSearch(n, d, lo, (lo + hi + 1) \div 2 - 1)

\* +Math.sqrt(x).toFixed(3) for x <= 1; NaN for a negative x.
SqrtFixed3(x) ==
  IF ~IsNum(x) THEN (IF x.t = "inf" THEN PosInf ELSE NaN)
  ELSE IF x.n < 0 THEN NaN
  ELSE Num(SqrtSearch(x.n, x.d, 0, 1000), 1000)

\* A variant of yieldRecord whose density ceiling is twice as high.
yieldRecordHighCeiling(efficiency, density) ==
  [efficiency_g_per_dollar |-> ToFixed(efficiency, 3),
   density_g_per_100kcal |-> ToFixed(density, 2),
   yieldIndex |-> SqrtFixed3(JsMul(MathMin1(JsDiv(efficiency, Whole(E_TARGET))),
                                   MathMin1(JsDiv(density, Whole(2 * DENSITY_CEILING)))))]

\* The record calcYieldIndex returns for an efficiency and a density.
yieldRecord(efficiency, density) ==
  [efficiency_g_per_dollar |-> ToFixed(efficiency, 3),
   density_g_per_100kcal |-> ToFixed(density, 2),
   yieldIndex |-> SqrtFixed3(JsMul(MathMin1(JsDiv(efficiency, Whole(E_TARGET))),
                                   MathMin1(JsDiv(density, Whole(DENSITY_CEILING)))))]

calcYieldIndex(protPer100g, kcalPer100g, pricePerKg) ==
  IF ~Truthy(protPer100g) \/ ~Truthy(kcalPer100g) \/ ~Truthy(pricePerKg) THEN Null
  ELSE yieldRecord(JsDiv(protPer100g, JsDiv(pricePerKg, Whole(10))),
                   JsMul(JsDiv(protPer100g, kcalPer100g), Whole(100)))

MetricsFields ==
  {"pricePerKg", "pricePer100g", "proteinPerDollar", "kcalPerDollar",
   "proteinPerKcal", "proteinToFatRatio", "healthValue", "yieldIndex",
   "efficiency_g_per_dollar", "density_g_per_100kcal"}

\* yi?.key ?? null
yiField(yi, key) == IF yi = Null THEN Null ELSE yi[key]

\* A variant of metricsRecord that divides by fat, kcal and protein unguarded.
metricsRecordUnguarded(hs, pricePerKg, pricePer100g, protein, kcal, fat, yi) ==
  Rec([pricePerKg |-> pricePerKg,
       pricePer100g |-> ToFixed(pricePer100g, 3),
       proteinPerDollar |-> ToFixed(JsDiv(protein, pricePer100g), 2),
       kcalPerDollar |-> ToFixed(JsDiv(kcal, pricePer100g), 0),
       proteinPerKcal |-> ToFixed(JsDiv(protein, kcal), 3),
       proteinToFatRatio |-> ToFixed(JsDiv(protein, fat), 2),
       healthValue |-> Null,
       yieldIndex |-> yiField(yi, "yieldIndex"),
       efficiency_g_per_dollar |-> yiField(yi, "efficiency_g_per_dollar"),
       density_g_per_100kcal |-> yiField(yi, "density_g_per_100kcal")])

\* The metrics object of computeMetrics from the resolved inputs.
metricsRecord(hs, pricePerKg, pricePer100g, protein, kcal, fat, yi) ==
  Rec([pricePerKg |-> pricePerKg,
       pricePer100g |-> ToFixed(pricePer100g, 3),
       proteinPerDollar |->
         IF Truthy(protein) THEN ToFixed(JsDiv(protein, pricePer100g), 2) ELSE Null,
       kcalPerDollar |->
         IF Truthy(kcal) THEN ToFixed(JsDiv(kcal, pricePer100g), 0) ELSE Null,
       proteinPerKcal |->
         IF JsGt(kcal, Whole(0)) THEN ToFixed(JsDiv(protein, kcal), 3) ELSE Null,
       proteinToFatRatio |->
         IF JsGt(fat, Whole(0)) THEN ToFixed(JsDiv(protein, fat), 2) ELSE Null,
       healthValue |->
         IF ~IsNullish(hs)
         THEN ToFixed(JsDiv(JsOr(JsNumber(hs), Whole(0)), pricePerKg), 3)
         ELSE Null,
       yieldIndex |-> yiField(yi, "yieldIndex"),
       efficiency_g_per_dollar |-> yiField(yi, "efficiency_g_per_dollar"),
       density_g_per_100kcal |-> yiField(yi, "density_g_per_100kcal")])

metricsOf(hs, pricePerKg, protein, kcal, fat) ==
  metricsRecord(hs, pricePerKg, JsDiv(pricePerKg, Whole(10)), protein, kcal, fat,
                calcYieldIndex(protein, kcal, pricePerKg))

\* computeMetrics after the price basis is known: null unless it is positive.
metricsAtPrice(p, pricePerKg) ==
  IF pricePerKg = Throw THEN Throw
  ELSE IF ~Truthy(pricePerKg) \/ JsLe(pricePerKg, Whole(0)) THEN Null
  ELSE metricsOf(p.health_star, pricePerKg, per100g(p, "protein"),
                 per100g(p, "energy_kcal"), per100g(p, "fat_total"))

\* A variant of metricsPricePerKg that falls back on price_current / size.
metricsPricePerKgWithShelf(p) ==
  IF Truthy(normalizePricePerKg(p)) THEN normalizePricePerKg(p)
  ELSE IF fallbackPricePerGram(p).t = "num"
       THEN JsMul(fallbackPricePerGram(p), Whole(1000))
       ELSE Null

\* The price basis of computeMetrics: the cup price only.
metricsPricePerKg(p) == normalizePricePerKg(p)

computeMetrics(p) ==
  IF ~p.present THEN Null ELSE metricsAtPrice(p, metricsPricePerKg(p))

MealMetricKeys == {"proteinPerDollar", "kcalPerDollar", "yieldIndex"}

\* The loop body of computeMealMetrics for one item's metrics and weight.
addWeighted(before, metrics, weight) ==
  IF before = Throw \/ metrics = Throw THEN Throw
  ELSE IF metrics = Null THEN before
  ELSE [w |-> JsAdd(before.w, weight),
        agg |-> [k \in MealMetricKeys |->
                   JsAdd(before.agg[k], JsMul(Coalesce(metrics.f[k], Whole(0)), weight))]]

\* The loop of computeMealMetrics: [w, agg] after the items, from the first.
RECURSIVE mealMetricsLoop(_)
mealMetricsLoop(items) ==
  IF items = <<>> THEN [w |-> Whole(0), agg |-> [k \in MealMetricKeys |-> Whole(0)]]
  ELSE addWeighted(mealMetricsLoop(SubSeq(items, 1, Len(items) - 1)),
                   computeMetrics(items[Len(items)].product),
                   Coalesce(items[Len(items)].quantity, Whole(100)))

\* agg[key] = +(agg[key] / totalWeight).toFixed(2)
meanOf(r) ==
  IF r = Throw THEN Throw
  ELSE Rec([k \in MealMetricKeys |-> ToFixed(JsDiv(r.agg[k], r.w), 2)])

computeMealMetrics(items) ==
  IF Len(items) = 0 THEN Null ELSE meanOf(mealMetricsLoop(items))

(***************************************************************************)
(* classifyThreshold                                                       *)
(***************************************************************************)
Thresholds(g, o) == [good |-> g, ok |-> o]

classifyThreshold(v, t) ==
  IF IsNullish(v) \/ NumberIsNaN(v) THEN "unknown"
  ELSE IF JsLe(v, t.good) THEN "good"
  ELSE IF JsLe(v, t.ok) THEN "ok"
  ELSE "high"

\* A missing minimums argument (mins == null).
NoMinimums == [t |-> "undef"]

classifyMinimum(v, mins) ==
  IF IsNullish(v) \/ mins = NoMinimums THEN "unknown"
  ELSE IF JsGe(v, mins.good) THEN "good"
  ELSE IF JsGe(v, mins.ok) THEN "ok"
  ELSE "high"

(***************************************************************************)
(* useMealItemPrice                                                        *)
(***************************************************************************)
\* The unit branches of the hook's cup price, on the normalised unit.
hookCupScale(v, unit) ==
  CASE includes(unit, <<"1", "k", "g">>) -> JsDiv(v, Whole(1000))
    [] includes(unit, <<"1", "0", "0", "g">>) -> JsDiv(v, Whole(100))
    [] includes(unit, <<"1", "g">>) -> v
    [] includes(unit, <<"1", "l">>) -> JsDiv(v, Whole(1000))
    [] includes(unit, <<"1", "0", "0", "m", "l">>) -> JsDiv(v, Whole(100))
    [] includes(unit, <<"1", "m", "l">>) -> v
    [] OTHER -> Null

\* The cup-price branch of the hook.
hookCupPrice(p) ==
  IF ~(Truthy(p.cup_price_value) /\ Truthy(p.cup_price_unit)) THEN Null
  ELSE IF p.cup_price_unit.t # "str" THEN Throw
  ELSE hookCupScale(p.cup_price_value, trim(toLowerCase(p.cup_price_unit.s)))

\* The fallback branch of the hook: price_current / parsed size.
hookFallback(p) == priceOverSize(num(p.price_current), parseSizeToGrams(p.size))

\* unitPricePerGram of the hook, the fallback running when the cup price is falsy.
hookUnitPrice(cup, p) ==
  IF cup = Throw THEN Throw
  ELSE IF Truthy(cup) THEN cup
  ELSE orFallback(cup, hookFallback(p))

HookFields == {"unitPricePerGram", "price"}

\* { unitPricePerGram, price }
hookResult(unit, grams) ==
  IF unit = Throw THEN Throw
  ELSE Rec([k \in HookFields |->
              IF k = "unitPricePerGram" THEN unit
              ELSE IF Truthy(unit) THEN JsMul(unit, grams) ELSE Whole(0)])

useMealItemPrice(p, grams) ==
  IF ~p.present \/ ~Truthy(grams) THEN hookResult(Null, grams)
  ELSE hookResult(hookUnitPrice(hookCupPrice(p), p), grams)

(***************************************************************************)
(* sumDayTotals                                                            *)
(***************************************************************************)
\* acc[k] = (acc[k] ?? 0) + v for every field of the totals t of one meal.
addMealTotals(acc, t) ==
  IF acc = Throw \/ t = Throw THEN Throw
  ELSE [k \in DOMAIN acc \cup DOMAIN t.f |->
          JsAdd(IF k \in DOMAIN acc THEN acc[k] ELSE Whole(0), t.f[k])]

\* The reduce over the eaten meals, from {}.
RECURSIVE reduceDay(_)
reduceDay(ems) ==
  IF ems = <<>> THEN <<>>
  ELSE addMealTotals(reduceDay(SubSeq(ems, 1, Len(ems) - 1)),
                     aggregateMealTotals(ems[Len(ems)]))

dayRecord(acc) == IF acc = Throw THEN Throw ELSE Rec(acc)

sumDayTotals(ems) == dayRecord(reduceDay(ems))

(***************************************************************************)
(* aggregateMealTotals at the precision of the JavaScript number type      *)
(*                                                                         *)
(* A double is [hi, lo, e]: the 53-bit significand hi * 2^28 + lo, with    *)
(* 2^24 <= hi < 2^25 and lo < 2^28, and the exponent e of its leading bit; *)
(* 0 is [0, 0, 0].  Only non-negative doubles occur.                       *)
(***************************************************************************)
Double(hi, lo, e) == [hi |-> hi, lo |-> lo, e |-> e]
ZeroDouble == Double(0, 0, 0)

RECURSIVE Pow2(_)
Pow2(k) == IF k = 0 THEN 1 ELSE 2 * Pow2(k - 1)

\* The limb size, 2^28, and the first value of hi that is not normalised, 2^25.
Limb == Pow2(28)
HiEnd == Pow2(25)

\* The number of bits by which the wide sum (hi, lo) exceeds 53 bits.
RECURSIVE excessBits(_)
excessBits(hi) == IF hi < HiEnd THEN 0 ELSE 1 + excessBits(hi \div 2)

\* The significand qhi * 2^28 + qlo plus 1 when `up`, renormalised when the
\* increment carries into bit 53.
roundedUp(qhi, qlo, e, up) ==
  IF ~up THEN Double(qhi, qlo, e)
  ELSE IF qlo + 1 < Limb THEN Double(qhi, qlo + 1, e)
  ELSE IF qhi + 1 < HiEnd THEN Double(qhi + 1, 0, e)
  ELSE Double(HiEnd \div 2, 0, e + 1)

\* Round to nearest, ties to even: the quotient (qhi, qlo) of the wide sum by
\* 2^k and the k bits dropped from it.
roundNearestEven(qhi, qlo, dropped, k, e) ==
  roundedUp(qhi, qlo, e,
            k > 0 /\ (2 * dropped > Pow2(k)
                        \/ (2 * dropped = Pow2(k) /\ qlo % 2 = 1)))

\* The wide sum hi * 2^28 + lo, whose last bit weighs as that of a double of
\* exponent e, rounded to a double: k bits are dropped.
roundWide(hi, lo, e, k) ==
  roundNearestEven(hi \div Pow2(k),
                   lo \div Pow2(k) + (hi % Pow2(k)) * Pow2(28 - k),
                   lo % Pow2(k), k, e + k)

\* The limbs of the sum of the significand of a, shifted left by s bits, and
\* the significand of b.
wideLo(a, b, s) == (a.lo % Pow2(28 - s)) * Pow2(s) + b.lo
wideHi(a, b, s) == a.hi * Pow2(s) + a.lo \div Pow2(28 - s) + b.hi

\* a + b for a.e >= b.e, the exponents at most 5 apart.
addAligned(a, b) ==
  roundWide(wideHi(a, b, a.e - b.e) + wideLo(a, b, a.e - b.e) \div Limb,
            wideLo(a, b, a.e - b.e) % Limb, b.e,
            excessBits(wideHi(a, b, a.e - b.e)
                         + wideLo(a, b, a.e - b.e) \div Limb))

\* a + b on doubles
addDouble(a, b) ==
  IF a = ZeroDouble THEN b
  ELSE IF b = ZeroDouble THEN a
  ELSE IF a.e >= b.e THEN addAligned(a, b) ELSE addAligned(b, a)

\* The double a JSON amount is read as, for the amounts that occur.
doubleOf(x) ==
  CASE x = Num(1, 10) -> Double(26843545, 161061274, -4)
    [] x = Num(2, 10) -> Double(26843545, 161061274, -3)
    [] x = Num(3, 10) -> Double(20132659, 53687091, -2)
    [] x = Num(4, 10) -> Double(26843545, 161061274, -2)
    [] x = Num(7, 10) -> Double(23488102, 107374182, -1)
    [] OTHER -> ZeroDouble

\* per100g(item.product, k) * factor for an item of 100 g: the factor
\* 100 / 100 is exactly 1 and x * 1 is x.
contributionDouble(it, k) == doubleOf(per100g(it.product, k))

\* totals[k] after the loop over the items, all counted.
RECURSIVE accumulateDoubles(_, _)
accumulateDoubles(items, k) ==
  IF items = <<>> THEN ZeroDouble
  ELSE addDouble(accumulateDoubles(SubSeq(items, 1, Len(items) - 1), k),
                 contributionDouble(items[Len(items)], k))

\* The totals of a meal of 100 g items of products without energy, protein
\* and price: the rounded fields are 0 and stay 0 when rounded.
aggregateDoubles(items) ==
  Rec([k \in TotalsFields |-> accumulateDoubles(items, k)])

(***************************************************************************)
(* apiClient: the response interceptor                                     *)
(*                                                                         *)
(* requests[r] is [pc, sends]: pc is "new" before the caller sends the     *)
(* request, "sent" while it is with the server, "seeding" while the        *)
(* interceptor awaits ensureCsrfCookie, "resolved" or "rejected" once the  *)
(* caller has its answer; sends counts the times it was sent.              *)
(***************************************************************************)
Request(pc, sends) == [pc |-> pc, sends |-> sends]

\* No request has been made: let retriedForCsrf = false
NoClient == retriedForCsrf = FALSE /\ requests = <<>>

\* status 403 or 419 with "csrf" in the body
looksLikeCsrf(outcome) == outcome = "csrf"

\* The error branch of the interceptor up to its first await or its return:
\* the flag it leaves.
flagAfterError(outcome, flag) == looksLikeCsrf(outcome) /\ ~flag

\* The error branch of the interceptor: where it leaves the request.
pcAfterError(outcome, flag) ==
  IF looksLikeCsrf(outcome) /\ ~flag THEN "seeding" ELSE "rejected"

(***************************************************************************)
(* Inputs                                                                  *)
(***************************************************************************)
MaxItems == 2
MaxCalls == 2

Prod(pn, nut, cpv, cpu, pc, sz, hs) ==
  [present |-> TRUE, product_nutrients |-> pn, nutrition |-> nut,
   nutrients |-> NoMap, cup_price_value |-> cpv, cup_price_unit |-> cpu,
   price_current |-> pc, size |-> sz, health_star |-> hs]

\* Nutrition payloads: [pn, nut, hs]
NutExample ==
  [pn |-> <<PN("protein", Whole(20)), PN("energy_kcal", Whole(200))>>,
   nut |-> NoMap, hs |-> Undef]
NutAliased ==
  [pn |-> <<PN("Protein", Whole(10)), PN("Fat", Whole(5)),
            PN("energy_kj", Num(4184, 10)), PN("SALT", Whole(300))>>,
   nut |-> NoMap, hs |-> Str(<<"4", ".", "5">>)]
NutMap ==
  [pn |-> <<>>,
   nut |-> MapOf([k \in {"protein", "energy_kcal", "fat"} |->
                    CASE k = "protein" -> Entry(Obj(Whole(8), Undef), Undef)
                      [] k = "energy_kcal" -> Entry(Whole(50), Undef)
                      [] OTHER -> Entry(Undef, Str(<<"2", ".", "5">>))]),
   hs |-> Null]
NutNoProtein ==
  [pn |-> <<PN("protein", Whole(0)), PN("energy_kcal", Whole(100)),
            PN("fat_total", Whole(0))>>,
   nut |-> NoMap, hs |-> Str(<<"3">>)]
NutEmpty == [pn |-> <<>>, nut |-> NoMap, hs |-> Undef]
NutNoEnergy ==
  [pn |-> <<PN("protein", Whole(10)), PN("fat_total", Whole(2)),
            PN("energy_kcal", Whole(0))>>,
   nut |-> NoMap, hs |-> Str(<<"5">>)]
NutDense ==
  [pn |-> <<PN("protein", Whole(100)), PN("energy_kcal", Whole(100))>>,
   nut |-> NoMap, hs |-> Undef]
NutNegativeEnergy ==
  [pn |-> <<PN("protein", Whole(10)), PN("energy_kcal", Whole(-50)),
            PN("fat_total", Whole(-2))>>,
   nut |-> NoMap, hs |-> Str(<<"a", "b", "c">>)]
NutNonNumeric ==
  [pn |-> <<PN("protein", Str(<<"a", "b", "c">>)), PN("energy_kcal", Whole(100)),
            PN("fat_total", Null)>>,
   nut |-> NoMap, hs |-> Str(<<"a", "b", "c">>)]
NutProfiles ==
  {NutExample, NutAliased, NutMap, NutNoProtein, NutEmpty, NutNoEnergy, NutDense,
   NutNegativeEnergy, NutNonNumeric}

CupUnits ==
  {Null, Str(<<>>),
   Str(<<"1", "k", "g">>), Str(<<"1", "0", "0", "g">>), Str(<<"1", "g">>),
   Str(<<"1", "l">>), Str(<<"1", "0", "0", "m", "l">>), Str(<<"1", "m", "l">>),
   Str(<<"1", "K", "G">>), Str(<<" ", "1", "0", "0", "G", " ">>),
   Str(<<"1", " ", "k", "g">>), Str(<<"p", "e", "r", " ", "1", "k", "g">>),
   Str(<<"1", "1", "g">>), Str(<<"1", "0", "k", "g">>),
   Str(<<"1", "g", "/", "1", "k", "g">>), Str(<<"e", "a", "c", "h">>)}
CupValues == {Null, Whole(0), Whole(5), Num(-5, 1), Num(5, 2)}
ShelfPrices ==
  {<<Null, Null>>, <<Whole(6), Str(<<"1", ".", "2", "k", "g">>)>>,
   <<Whole(3), Str(<<"a", "b", "c">>)>>, <<Whole(0), Str(<<"4", "5", "0", "g">>)>>}

Products ==
  {Prod(np.pn, np.nut, cv, cu, sp[1], sp[2], np.hs) :
     np \in NutProfiles, cv \in CupValues, cu \in CupUnits, sp \in ShelfPrices}

\* The products of the meals drawn.
ExampleProduct ==
  Prod(NutExample.pn, NoMap, Whole(10), Str(<<"1", "k", "g">>), Null, Null, Undef)
PaddedCupProduct ==
  Prod(NutAliased.pn, NoMap, Whole(5), Str(<<" ", "1", "0", "0", "G", " ">>),
       Whole(9), Str(<<"1", "k", "g">>), NutAliased.hs)
ShelfProduct ==
  Prod(<<>>, NutMap.nut, Null, Null, Whole(6), Str(<<"1", ".", "2", "k", "g">>), Null)
UnpricedProduct ==
  Prod(NutExample.pn, NoMap, Null, Null, Null, Null, Undef)
NoProteinProduct ==
  Prod(NutNoProtein.pn, NoMap, Whole(2), Str(<<"1", "L">>), Null, Null, NutNoProtein.hs)
UnknownUnitProduct ==
  Prod(NutAliased.pn, NoMap, Whole(5), Str(<<"e", "a", "c", "h">>),
       Whole(3), Str(<<"4", "5", "0", "-", "6", "5", "0", "g">>), Undef)
NumericSizeProduct ==
  Prod(NutExample.pn, NoMap, Null, Null, Whole(3), Whole(450), Undef)
NegativeAmountProduct ==
  Prod(NutNegativeEnergy.pn, NoMap, Num(-5, 1), Str(<<"1", "k", "g">>), Null, Null, Undef)

Quantities ==
  {Whole(150), Whole(0), Null, Undef, Str(<<"a", "b", "c">>), Num(-20, 1)}

Items ==
  {Item(ExampleProduct, q) : q \in Quantities}
  \cup {Item(PaddedCupProduct, Whole(100)), Item(PaddedCupProduct, Num(125, 2)),
        Item(ShelfProduct, Num(125, 2)),
        Item(UnpricedProduct, Whole(80)), Item(NoProteinProduct, Whole(50)),
        Item(UnknownUnitProduct, Whole(100)), Item(NumericSizeProduct, Whole(100)),
        Item(NegativeAmountProduct, Whole(100)), Item(NoProduct, Whole(100))}

\* Size strings: number unit separator number unit, each part possibly empty.
NumToks == {<<>>, <<"4", "5", "0">>, <<"6", "5", "0">>, <<"1", ".", "2">>}
UnitToks ==
  {<<>>, <<"g">>, <<"k", "g">>, <<"m", "l">>, <<" ", "M", "L">>,
   <<" ", "e", "g", "g", "s">>, <<"l">>}
SepToks == {<<>>, <<"-">>, <<EnDash>>, <<" ">>}
SizeInputs ==
  {Str(n1 \o u1 \o sp \o n2 \o u2) :
     n1 \in NumToks, u1 \in UnitToks, sp \in SepToks, n2 \in NumToks, u2 \in UnitToks}
  \cup {Null, Undef, Str(<<"a", "b", "c">>), Str(<<"5", "0", "0", " ", "M", "L">>),
        Str(<<"0", "g">>), Whole(450)}

\* Values and thresholds of the classifiers.
NUTRIENT_THRESHOLDS ==
  {Thresholds(Num(1, 2), Whole(1)), Thresholds(Whole(2), Whole(5)),
   Thresholds(Num(33, 100), Num(1, 2)), Thresholds(Whole(120), Whole(400)),
   Thresholds(Whole(120), Whole(300)), Thresholds(Whole(5), Num(45, 2)),
   Thresholds(Num(5, 2), Num(45, 4)), Thresholds(Num(3, 2), Whole(5)),
   Thresholds(Whole(3), Num(35, 2)), Thresholds(Whole(600), Whole(950))}
ClassifyValues ==
  {Null, Undef, NaN, PosInf, NegInf}
  \cup {Whole(n) : n \in {-1, 0, 1, 2, 3, 5, 6, 119, 120, 121, 300, 301, 400, 401, 600, 951}}
  \cup {Num(n, 100) : n \in {33, 34, 50, 51, 150, 250, 251, 1125, 1126, 2250, 2251}}

(***************************************************************************)
(* Specifications                                                          *)
(***************************************************************************)
Idle ==
  /\ meal = <<>>
  /\ product = NoProduct
  /\ size = Undef
  /\ value = Undef
  /\ thr = Thresholds(Whole(0), Whole(0))
  /\ nutrientCode = ""
  /\ fn = "idle"
  /\ ret = Undef
  /\ pre = Undef
  /\ calls = 0
  /\ item = NoItem
  /\ eatenMeals = <<>>
  /\ NoClient

\* ---- meals: the caller builds a meal, then one engine function runs on it
Init == Idle

AddItem ==
  \E it \in Items :
    /\ fn = "idle"
    /\ Len(meal) < MaxItems
    /\ meal' = Append(meal, it)
    /\ UNCHANGED <<product, size, value, thr, nutrientCode, fn, ret, pre, calls, item, eatenMeals, retriedForCsrf, requests>>

\* A call of aggregateMealTotals on the meal, the first or a further one.
AggregateMealTotals ==
  /\ fn \in {"idle", "aggregateMealTotals"}
  /\ calls < MaxCalls
  /\ calls' = calls + 1
  /\ fn' = "aggregateMealTotals"
  /\ pre' = accumulateTotals(meal)
  /\ ret' = aggregateMealTotals(meal)
  /\ UNCHANGED <<meal, product, size, value, thr, nutrientCode, item, eatenMeals, retriedForCsrf, requests>>

\* MealItemSchema types quantity as a number; computeMealMetrics itself also
\* accepts a missing one.
ComputeMealMetrics ==
  /\ fn = "idle"
  /\ \A i \in 1..Len(meal) : meal[i].quantity.t # "str"
  /\ fn' = "computeMealMetrics"
  /\ ret' = computeMealMetrics(meal)
  /\ UNCHANGED <<meal, product, size, value, thr, nutrientCode, pre, calls, item, eatenMeals, retriedForCsrf, requests>>

Next == AddItem \/ AggregateMealTotals \/ ComputeMealMetrics

Spec == Init /\ [][Next]_vars

\* ---- products: one product, one function of metrics.ts applied to it
InitProduct ==
  /\ product \in Products
  /\ meal = <<>> /\ size = Undef /\ value = Undef
  /\ thr = Thresholds(Whole(0), Whole(0))
  /\ nutrientCode = "" /\ fn = "idle" /\ ret = Undef /\ pre = Undef /\ calls = 0 /\ item = NoItem
  /\ eatenMeals = <<>>
  /\ NoClient

NormalizePricePerKg ==
  /\ fn = "idle"
  /\ fn' = "normalizePricePerKg"
  /\ ret' = normalizePricePerKg(product)
  /\ UNCHANGED <<meal, product, size, value, thr, nutrientCode, pre, calls, item, eatenMeals, retriedForCsrf, requests>>

ComputeMetrics ==
  /\ fn = "idle"
  /\ fn' = "computeMetrics"
  /\ ret' = computeMetrics(product)
  /\ UNCHANGED <<meal, product, size, value, thr, nutrientCode, pre, calls, item, eatenMeals, retriedForCsrf, requests>>

NextProduct == NormalizePricePerKg \/ ComputeMetrics

SpecProduct == InitProduct /\ [][NextProduct]_vars

\* ---- sizes: parseSizeToGrams applied to one size value
InitSize ==
  /\ size \in SizeInputs
  /\ meal = <<>> /\ product = NoProduct /\ value = Undef
  /\ thr = Thresholds(Whole(0), Whole(0))
  /\ nutrientCode = "" /\ fn = "idle" /\ ret = Undef /\ pre = Undef /\ calls = 0 /\ item = NoItem
  /\ eatenMeals = <<>>
  /\ NoClient

ParseSizeToGrams ==
  /\ fn = "idle"
  /\ fn' = "parseSizeToGrams"
  /\ ret' = parseSizeToGrams(size)
  /\ UNCHANGED <<meal, product, size, value, thr, nutrientCode, pre, calls, item, eatenMeals, retriedForCsrf, requests>>

NextSize == ParseSizeToGrams

SpecSize == InitSize /\ [][NextSize]_vars

\* ---- classifiers: one value against one threshold pair
InitClassify ==
  /\ value \in ClassifyValues
  /\ thr \in NUTRIENT_THRESHOLDS
  /\ meal = <<>> /\ product = NoProduct /\ size = Undef
  /\ nutrientCode = "" /\ fn = "idle" /\ ret = Undef /\ pre = Undef /\ calls = 0 /\ item = NoItem
  /\ eatenMeals = <<>>
  /\ NoClient

ClassifyThreshold ==
  /\ fn = "idle"
  /\ fn' = "classifyThreshold"
  /\ ret' = classifyThreshold(value, thr)
  /\ UNCHANGED <<meal, product, size, value, thr, nutrientCode, pre, calls, item, eatenMeals, retriedForCsrf, requests>>

NextClassify == ClassifyThreshold

SpecClassify == InitClassify /\ [][NextClassify]_vars

\* ---- minimums: one value against one pair of minimums, or none
NUTRIENT_MINIMUMS == {Thresholds(Whole(5), Whole(3)), Thresholds(Whole(10), Whole(5))}

InitMinimum ==
  /\ value \in ClassifyValues
  /\ thr \in NUTRIENT_MINIMUMS \cup {NoMinimums}
  /\ meal = <<>> /\ product = NoProduct /\ size = Undef
  /\ nutrientCode = "" /\ fn = "idle" /\ ret = Undef /\ pre = Undef /\ calls = 0 /\ item = NoItem
  /\ eatenMeals = <<>>
  /\ NoClient

ClassifyMinimum ==
  /\ fn = "idle"
  /\ fn' = "classifyMinimum"
  /\ ret' = classifyMinimum(value, thr)
  /\ UNCHANGED <<meal, product, size, value, thr, nutrientCode, pre, calls, item, eatenMeals, retriedForCsrf, requests>>

NextMinimum == ClassifyMinimum

SpecMinimum == InitMinimum /\ [][NextMinimum]_vars

\* ---- nutrients: per100g applied to one product and one code
KJ_EXAMPLE == Num(4184, 10)

\* Relational lists: none, plain, an entry without code before a mixed-case
\* one with a numeric string, non-numeric, non-finite, missing and negative
\* amounts, energy stored under each of the energy codes, and single entries
\* under aliases of fat_total and sodium and under a code outside them.
RelationalLists ==
  {<<>>,
   <<PN("protein", Whole(20))>>,
   <<PN("", Whole(7)), PN("Protein", Str(<<"1", "2", ".", "5">>))>>,
   <<PN("protein", Str(<<"a", "b", "c">>))>>,
   <<PN("protein", PosInf)>>,
   <<PN("protein", NaN)>>,
   <<PN("protein", Null)>>,
   <<PN("protein", Num(-3, 1)), PN("protein", Whole(20))>>,
   <<PN("energy_kj", KJ_EXAMPLE)>>,
   <<PN("energy", KJ_EXAMPLE)>>,
   <<PN("energy-kj", KJ_EXAMPLE)>>,
   <<PN("Energy_KJ", KJ_EXAMPLE), PN("protein", Whole(20))>>,
   <<PN("energy_kcal", Whole(100)), PN("energy_kj", KJ_EXAMPLE)>>,
   <<PN("Fat", Whole(5)), PN("SALT", Whole(300))>>,
   <<PN("Fat", Whole(5))>>,
   <<PN("total_fat", Whole(5))>>,
   <<PN("FATS_TOTAL", Whole(5))>>,
   <<PN("Na", Whole(5))>>,
   <<PN("fat_saturated", Whole(5))>>}

\* A flattened map with the one key k.
OneKey(k, e) == MapOf([x \in {k} |-> e])

\* Flattened maps: none, and one entry probed at per_100.value,
\* per_100.amount, per_100 itself and value, with zero, non-finite and
\* non-numeric probes, under a code or an alias of it, in lower and in
\* upper case.
NutritionMaps ==
  {NoMap,
   OneKey("protein", Entry(Obj(Whole(8), Whole(9)), Whole(4))),
   OneKey("protein", Entry(Obj(Undef, Whole(9)), Whole(4))),
   OneKey("protein", Entry(Whole(6), Whole(4))),
   OneKey("protein", Entry(Undef, Str(<<"2", ".", "5">>))),
   OneKey("protein", Entry(Obj(Whole(0), Whole(9)), Whole(4))),
   OneKey("protein", Entry(PosInf, Whole(4))),
   OneKey("protein", Entry(Str(<<"a", "b", "c">>), Whole(4))),
   OneKey("prot", Entry(Whole(6), Undef)),
   OneKey("energy_kj", Entry(KJ_EXAMPLE, Undef)),
   OneKey("energy", Entry(KJ_EXAMPLE, Undef)),
   OneKey("salt", Entry(Obj(Whole(300), Undef), Undef)),
   OneKey("fat", Entry(Whole(5), Undef)),
   OneKey("Fat", Entry(Whole(5), Undef)),
   OneKey("na", Entry(Whole(5), Undef)),
   OneKey("SALT", Entry(Whole(5), Undef)),
   OneKey("fat_saturated", Entry(Whole(5), Undef))}

NutrientProducts ==
  {NoProduct}
  \cup {Prod(pn, nut, Null, Null, Null, Null, Undef) :
          pn \in RelationalLists, nut \in NutritionMaps}
  \cup {[Prod(<<>>, NoMap, Null, Null, Null, Null, Undef) EXCEPT !.nutrients = nut] :
          nut \in NutritionMaps}

Codes ==
  {"protein", "PROTEIN", "energy_kcal", "energy_kj", "fat_total", "sodium", "fiber"}

InitNutrient ==
  /\ product \in NutrientProducts
  /\ nutrientCode \in Codes
  /\ meal = <<>> /\ size = Undef /\ value = Undef
  /\ thr = Thresholds(Whole(0), Whole(0))
  /\ fn = "idle" /\ ret = Undef /\ pre = Undef /\ calls = 0 /\ item = NoItem
  /\ eatenMeals = <<>>
  /\ NoClient

Per100g ==
  /\ fn = "idle"
  /\ fn' = "per100g"
  /\ ret' = per100g(product, nutrientCode)
  /\ UNCHANGED <<meal, product, size, value, thr, nutrientCode, pre, calls, item, eatenMeals, retriedForCsrf, requests>>

NextNutrient == Per100g

SpecNutrient == InitNutrient /\ [][NextNutrient]_vars

\* ---- single items: mealItemNutrition on one item
ItemInputs == {Item(p, q) : p \in NutrientProducts, q \in Quantities} \cup Items

InitItem ==
  /\ item \in ItemInputs
  /\ meal = <<>> /\ product = NoProduct /\ size = Undef /\ value = Undef
  /\ thr = Thresholds(Whole(0), Whole(0)) /\ nutrientCode = ""
  /\ fn = "idle" /\ ret = Undef /\ pre = Undef /\ calls = 0
  /\ eatenMeals = <<>>
  /\ NoClient

MealItemNutrition ==
  /\ fn = "idle"
  /\ fn' = "mealItemNutrition"
  /\ ret' = mealItemNutrition(item)
  /\ UNCHANGED <<meal, product, size, value, thr, nutrientCode, pre, calls, item, eatenMeals, retriedForCsrf, requests>>

\* The hook takes the product and the grams of an item; grams is a number.
UseMealItemPrice ==
  /\ fn = "idle"
  /\ IsNumeric(item.quantity)
  /\ fn' = "useMealItemPrice"
  /\ ret' = useMealItemPrice(item.product, item.quantity)
  /\ UNCHANGED <<meal, product, size, value, thr, nutrientCode, pre, calls, item, eatenMeals, retriedForCsrf, requests>>

NextItem == MealItemNutrition \/ UseMealItemPrice

SpecItem == InitItem /\ [][NextItem]_vars

\* ---- doubles: aggregateMealTotals on meals of 100 g items of products
\* ---- that carry fat only, computed as the number type computes
MaxDoubleItems == 3

FatAmounts == {Num(1, 10), Num(2, 10), Num(3, 10), Num(4, 10), Num(7, 10)}

FatProduct(a) == Prod(<<PN("fat_total", a)>>, NoMap, Null, Null, Null, Null, Undef)

FatItems == {Item(FatProduct(a), Whole(100)) : a \in FatAmounts}

FatMeals == UNION {[1..n -> FatItems] : n \in 0..MaxDoubleItems}

InitDouble ==
  /\ meal \in FatMeals
  /\ product = NoProduct /\ size = Undef /\ value = Undef
  /\ thr = Thresholds(Whole(0), Whole(0)) /\ nutrientCode = ""
  /\ fn = "idle" /\ ret = Undef /\ pre = Undef /\ calls = 0 /\ item = NoItem
  /\ eatenMeals = <<>>
  /\ NoClient

AggregateMealTotalsDouble ==
  /\ fn = "idle"
  /\ fn' = "aggregateMealTotals"
  /\ ret' = aggregateDoubles(meal)
  /\ UNCHANGED <<meal, product, size, value, thr, nutrientCode, pre, calls, item, eatenMeals, retriedForCsrf, requests>>

NextDouble == AggregateMealTotalsDouble

SpecDouble == InitDouble /\ [][NextDouble]_vars

\* ---- days: sumDayTotals on the meals eaten in a day
MaxMeals == 2

DayItems ==
  {Item(ExampleProduct, Whole(150)), Item(PaddedCupProduct, Num(125, 2)),
   Item(ShelfProduct, Num(125, 2)), Item(NumericSizeProduct, Whole(100))}

DayMeals == {<<>>} \cup {<<a>> : a \in DayItems} \cup {<<a, b>> : a, b \in DayItems}

InitDay ==
  /\ eatenMeals \in UNION {[1..n -> DayMeals] : n \in 0..MaxMeals}
  /\ meal = <<>> /\ product = NoProduct /\ size = Undef /\ value = Undef
  /\ thr = Thresholds(Whole(0), Whole(0)) /\ nutrientCode = ""
  /\ fn = "idle" /\ ret = Undef /\ pre = Undef /\ calls = 0 /\ item = NoItem
  /\ NoClient

SumDayTotals ==
  /\ fn = "idle"
  /\ fn' = "sumDayTotals"
  /\ ret' = sumDayTotals(eatenMeals)
  /\ UNCHANGED <<meal, product, size, value, thr, nutrientCode, pre, calls, item,
                 eatenMeals, retriedForCsrf, requests>>

NextDay == SumDayTotals

SpecDay == InitDay /\ [][NextDay]_vars

\* ---- requests: callers send requests through apiClient, the server
\* ---- answers each with a response, a CSRF failure or another error
MaxRequests == 3
MaxSends == 3

Outcomes == {"ok", "csrf", "error"}

InitCsrf ==
  /\ retriedForCsrf = FALSE
  /\ requests = [r \in 1..MaxRequests |-> Request("new", 0)]
  /\ meal = <<>> /\ product = NoProduct /\ size = Undef /\ value = Undef
  /\ thr = Thresholds(Whole(0), Whole(0)) /\ nutrientCode = ""
  /\ fn = "idle" /\ ret = Undef /\ pre = Undef /\ calls = 0 /\ item = NoItem
  /\ eatenMeals = <<>>

\* A caller sends request r.
SendRequest(r) ==
  /\ requests[r].pc = "new"
  /\ requests' = [requests EXCEPT ![r] = Request("sent", 1)]
  /\ UNCHANGED <<meal, product, size, value, thr, nutrientCode, fn, ret, pre, calls,
                 item, eatenMeals, retriedForCsrf>>

\* The response of request r passes the success handler.
RespondOk(r) ==
  /\ requests[r].pc = "sent"
  /\ requests' = [requests EXCEPT ![r].pc = "resolved"]
  /\ UNCHANGED <<meal, product, size, value, thr, nutrientCode, fn, ret, pre, calls,
                 item, eatenMeals, retriedForCsrf>>

\* The error of request r passes the error handler, up to its await or return.
RespondError(r, outcome) ==
  /\ requests[r].pc = "sent"
  /\ outcome # "ok"
  /\ retriedForCsrf' = flagAfterError(outcome, retriedForCsrf)
  /\ requests' = [requests EXCEPT ![r].pc = pcAfterError(outcome, retriedForCsrf)]
  /\ UNCHANGED <<meal, product, size, value, thr, nutrientCode, fn, ret, pre, calls,
                 item, eatenMeals>>

\* ensureCsrfCookie has returned: the interceptor sends request r again.
RetryRequest(r) ==
  /\ requests[r].pc = "seeding"
  /\ requests[r].sends < MaxSends
  /\ requests' = [requests EXCEPT ![r] = Request("sent", requests[r].sends + 1)]
  /\ UNCHANGED <<meal, product, size, value, thr, nutrientCode, fn, ret, pre, calls,
                 item, eatenMeals, retriedForCsrf>>

NextCsrf ==
  \E r \in 1..MaxRequests :
    \/ SendRequest(r)
    \/ RespondOk(r)
    \/ \E outcome \in Outcomes : RespondError(r, outcome)
    \/ RetryRequest(r)

SpecCsrf == InitCsrf /\ [][NextCsrf]_vars

(***************************************************************************)
(* Properties                                                              *)
(*                                                                         *)
(* The operators named Spec... restate what the specification promises,    *)
(* from the specification's own words; the formulas compare them with what *)
(* the functions above return.                                             *)
(***************************************************************************)
\* An item "that has a product and a quantity > 0".
SpecCounted(it) ==
  it.product.present /\ it.quantity.t = "num" /\ it.quantity.n > 0

\* per100g(product, code) * quantity / 100 of one counted item.
SpecContribution(it, code) ==
  JsDiv(JsMul(per100g(it.product, code), it.quantity), Whole(100))

\* The sum of the contributions of the counted items.
RECURSIVE SpecSum(_, _)
SpecSum(items, code) ==
  IF items = <<>> THEN Whole(0)
  ELSE JsAdd(SpecSum(SubSeq(items, 1, Len(items) - 1), code),
             IF SpecCounted(items[Len(items)])
             THEN SpecContribution(items[Len(items)], code) ELSE Whole(0))

UnroundedFields == NutrientSet \ {"energy_kcal", "energy_kj", "protein"}

\* C1: after aggregateMealTotals, every nutrient total before the final
\* rounding is the sum of per100g * quantity / 100 over exactly the items with
\* a product and a quantity > 0 (the fields that are not rounded are returned
\* as summed), and a meal all of whose items are skipped (zero, missing,
\* non-numeric or negative quantity, no product) returns all zeros without
\* raising.
C1_NutrientSums ==
  fn = "aggregateMealTotals" =>
    /\ pre # Throw =>
         /\ \A f \in NutrientSet : pre[f] = SpecSum(meal, f)
         /\ \A f \in UnroundedFields : ret.f[f] = SpecSum(meal, f)
    /\ (\A i \in 1..Len(meal) : ~SpecCounted(meal[i])) =>
         pre = zeroTotals /\ ret # Throw

\* A meal with a counted item and an item skipped for its non-numeric quantity.
C1_Witness ==
  /\ fn = "aggregateMealTotals"
  /\ pre # Throw
  /\ \E i, j \in 1..Len(meal) :
       /\ SpecCounted(meal[i]) /\ meal[i].quantity = Whole(150)
       /\ ~SpecCounted(meal[j]) /\ meal[j].quantity.t = "str" /\ meal[j].product.present
  /\ pre["protein"] = Whole(30)

\* The cup price per gram when the unit is one of the recognised units.
SpecCupPerGram(v, u) ==
  CASE u = <<"1", "k", "g">> -> JsDiv(v, Whole(1000))
    [] u = <<"1", "0", "0", "g">> -> JsDiv(v, Whole(100))
    [] u = <<"1", "g">> -> v
    [] u = <<"1", "l">> -> JsDiv(v, Whole(1000))
    [] u = <<"1", "0", "0", "m", "l">> -> JsDiv(v, Whole(100))
    [] u = <<"1", "m", "l">> -> v
    [] OTHER -> Null

SpecCupPrice(p) ==
  IF p.cup_price_value.t = "num" /\ p.cup_price_value.n # 0 /\ p.cup_price_unit.t = "str"
  THEN SpecCupPerGram(p.cup_price_value, trim(toLowerCase(p.cup_price_unit.s)))
  ELSE Null

SpecPositive(x) == x.t = "num" /\ x.n > 0

\* price_current / parseSizeToGrams(size) when both are positive.
SpecShelfOver(price, grams) ==
  IF SpecPositive(price) /\ SpecPositive(grams) THEN JsDiv(price, grams) ELSE Null
SpecShelfPrice(p) == SpecShelfOver(p.price_current, parseSizeToGrams(p.size))

\* The unit price: the cup path when it resolves, only otherwise the shelf path.
SpecUnitPrice(p) ==
  IF SpecCupPrice(p) # Null THEN SpecCupPrice(p) ELSE SpecShelfPrice(p)

RECURSIVE SpecPriceSum(_)
SpecPriceSum(items) ==
  IF items = <<>> THEN Whole(0)
  ELSE JsAdd(SpecPriceSum(SubSeq(items, 1, Len(items) - 1)),
             IF SpecCounted(items[Len(items)])
                /\ SpecUnitPrice(items[Len(items)].product) # Null
             THEN JsMul(SpecUnitPrice(items[Len(items)].product),
                        items[Len(items)].quantity)
             ELSE Whole(0))

\* C2: price_total is the sum over the counted items of unit price * quantity,
\* rounded to 2 decimals, the unit price being the cup price scaled by its
\* recognised unit and only otherwise price_current / parseSizeToGrams(size);
\* an item priced through neither path adds nothing to price_total while its
\* nutrients are added; protein 20, energy_kcal 200, cup price 10 per "1kg",
\* quantity 150 gives protein 30, energy_kcal 300, price_total 1.50.
C2_PriceTotal ==
  fn = "aggregateMealTotals" /\ ret # Throw =>
    /\ ret.f["price_total"] = ToFixed(SpecPriceSum(meal), 2)
    /\ (\E i \in 1..Len(meal) :
          SpecCounted(meal[i]) /\ SpecUnitPrice(meal[i].product) = Null) =>
         ret.f["energy_kcal"] = MathRound(SpecSum(meal, "energy_kcal"))
    /\ meal = <<Item(ExampleProduct, Whole(150))>> =>
         /\ ret.f["protein"] = Whole(30)
         /\ ret.f["energy_kcal"] = Whole(300)
         /\ ret.f["price_total"] = Num(150, 100)

\* A meal priced through both paths: an item whose cup price resolves although
\* its shelf price would too, and an item whose cup unit is not recognised.
C2_Witness ==
  /\ fn = "aggregateMealTotals"
  /\ ret # Throw
  /\ \E i, j \in 1..Len(meal) :
       /\ SpecCounted(meal[i]) /\ SpecCupPrice(meal[i].product) # Null
       /\ SpecShelfPrice(meal[i].product) # Null
       /\ SpecCounted(meal[j]) /\ SpecCupPrice(meal[j].product) = Null
       /\ SpecShelfPrice(meal[j].product) # Null
  /\ ret.f["price_total"] = Num(555, 100)

\* The six unit tokens of the cup price, in the order they are tried, and the
\* factor from each to a price per kg.
SpecUnitTokens ==
  << <<"1", "k", "g">>, <<"1", "0", "0", "g">>, <<"1", "g">>,
     <<"1", "l">>, <<"1", "0", "0", "m", "l">>, <<"1", "m", "l">> >>
SpecUnitScales == <<1, 10, 1000, 1, 10, 1000>>

\* The first token contained in the unit u; 0 when it contains none.
SpecContained(u) == {i \in 1..Len(SpecUnitTokens) : includes(u, SpecUnitTokens[i])}
SpecFirstContained(u) ==
  IF SpecContained(u) = {} THEN 0
  ELSE CHOOSE i \in SpecContained(u) : \A j \in SpecContained(u) : i <= j

\* "A recognised cup price" that is positive.
SpecCupPathResolves(p) ==
  /\ SpecPositive(p.cup_price_value)
  /\ p.cup_price_unit.t = "str"
  /\ SpecFirstContained(trim(toLowerCase(p.cup_price_unit.s))) # 0

\* "A positive price_current together with a size that parseSizeToGrams
\* parses to a positive number."
SpecShelfPathResolves(p) ==
  SpecPositive(p.price_current) /\ SpecPositive(parseSizeToGrams(p.size))

\* C3 as claimed: computeMetrics returns a record whenever the cup path or the
\* shelf path (price_current and a parsable size) resolves to a positive
\* price, and null only when neither does.
C3_EitherPath ==
  fn = "computeMetrics" =>
    (ret # Null <=> SpecCupPathResolves(product) \/ SpecShelfPathResolves(product))

\* C3 as amended: computeMetrics returns a record exactly when the cup path
\* resolves to a positive price (cup_price_value > 0 and the lower-cased,
\* trimmed cup_price_unit contains one of the six unit tokens); price_current
\* and size are not consulted, so the result with them removed is the same.
C3_CupPathOnly ==
  fn = "computeMetrics" =>
    /\ ret # Null <=> SpecCupPathResolves(product)
    /\ ret = computeMetrics([product EXCEPT !.price_current = Null, !.size = Null])
    /\ ret # Null => ret.f["pricePerKg"] = normalizePricePerKg(product)

\* A product priced only by price_current and size, for which computeMetrics
\* returned null.
C3_Witness ==
  /\ fn = "computeMetrics"
  /\ ~SpecCupPathResolves(product)
  /\ SpecShelfPathResolves(product)
  /\ product.cup_price_value = Null
  /\ ret = Null

\* "A product with no price fields at all."
SpecNoPriceFields(p) ==
  /\ IsNullish(p.cup_price_value) /\ IsNullish(p.cup_price_unit)
  /\ IsNullish(p.price_current) /\ IsNullish(p.size)

\* The meal without its i-th item.
SpecWithout(items, i) == SubSeq(items, 1, i - 1) \o SubSeq(items, i + 1, Len(items))

\* C4: for a product with no price fields, computeMetrics is null, and as a
\* counted meal item it adds per100g * quantity / 100 to every nutrient total
\* and leaves price_total what it is for the meal without that item.
C4_GracefulDegradation ==
  fn = "aggregateMealTotals" /\ ret # Throw =>
    \A i \in 1..Len(meal) :
      SpecCounted(meal[i]) /\ SpecNoPriceFields(meal[i].product) =>
        /\ computeMetrics(meal[i].product) = Null
        /\ ret.f["price_total"] = aggregateMealTotals(SpecWithout(meal, i)).f["price_total"]
        /\ \A f \in NutrientSet :
             pre[f] = JsAdd(accumulateTotals(SpecWithout(meal, i))[f],
                            SpecContribution(meal[i], f))

\* A meal of a priced item and an item without any price field, both counted.
C4_Witness ==
  /\ fn = "aggregateMealTotals"
  /\ ret # Throw
  /\ \E i, j \in 1..Len(meal) :
       /\ SpecCounted(meal[i]) /\ SpecNoPriceFields(meal[i].product)
       /\ per100g(meal[i].product, "protein") = Whole(20)
       /\ SpecCounted(meal[j]) /\ SpecUnitPrice(meal[j].product) # Null
  /\ ret.f["price_total"].n > 0
  /\ ret.f["protein"].n > 0

\* The sizes "<a>g-<b>g" and "<a>g(en dash)<b>g": a range each bound of which
\* carries its unit.
SpecUnitRange(a, dash, b) == Str(a \o <<"g">> \o <<dash>> \o b \o <<"g">>)
SpecMean(a, b) == JsDiv(JsAdd(DecimalPrefix(a), DecimalPrefix(b)), Whole(2))

\* C5 as claimed: parseSizeToGrams resolves a range whose bounds each carry
\* the unit g, with a hyphen or an en dash, to the mean of the two bounds:
\* "450g-650g" is 550.
C5_RangeMean ==
  fn = "parseSizeToGrams" =>
    \A a \in NumToks \ {<<>>}, b \in NumToks \ {<<>>}, dash \in Dashes :
      size = SpecUnitRange(a, dash, b) => ret = SpecMean(a, b)

\* parseSizeToGrams("450g-650g") has returned.
C5_Witness ==
  /\ fn = "parseSizeToGrams"
  /\ size = SpecUnitRange(<<"4", "5", "0">>, "-", <<"6", "5", "0">>)
  /\ ret = Whole(450)

\* The size with its letters lower-cased and its whitespace removed.
SpecNormalised(cs) == stripSpaces(toLowerCase(cs))

\* A number directly followed by a unit somewhere in cs.
SpecNumberThenUnit(cs) ==
  \E i \in 1..Len(cs) : cs[i] \in Digits /\ UnitAt(cs, i + 1) # ""

\* cs is one quantity and one unit, and nothing else.
SpecSingleToken(cs) ==
  /\ NumberEnd(cs, 1) > 0
  /\ UnitAt(cs, NumberEnd(cs, 1)) # ""
  /\ NumberEnd(cs, 1) + Len(UnitAt(cs, NumberEnd(cs, 1))) = Len(cs) + 1

SpecGrams(cs) ==
  JsMul(DecimalPrefix(cs),
        Whole(IF UnitAt(cs, NumberEnd(cs, 1)) = "kg" THEN 1000 ELSE 1))

\* C6 as claimed: parseSizeToGrams returns the grams of a single quantity and
\* unit (kg * 1000, g, ml), whatever the letter case and the whitespace, and
\* null for null, undefined, "" and every string in which no number is
\* directly followed by a unit.
C6_SingleToken ==
  fn = "parseSizeToGrams" /\ size.t \in {"null", "undef", "str"} =>
    /\ ~Truthy(size) => ret = Null
    /\ size.t = "str" /\ SpecSingleToken(SpecNormalised(size.s)) =>
         ret = SpecGrams(SpecNormalised(size.s))
    /\ size.t = "str" /\ ~SpecNumberThenUnit(SpecNormalised(size.s)) => ret = Null

\* parseSizeToGrams("450-650 eggs") has returned a number.
C6_Witness ==
  /\ fn = "parseSizeToGrams"
  /\ size = Str(<<"4", "5", "0", "-", "6", "5", "0", " ", "e", "g", "g", "s">>)
  /\ ret = Whole(550)

\* The factor of the unit u when u is one of the six tokens; 0 otherwise.
SpecExactScale(u) ==
  IF \E i \in 1..Len(SpecUnitTokens) : SpecUnitTokens[i] = u
  THEN SpecUnitScales[CHOOSE i \in 1..Len(SpecUnitTokens) : SpecUnitTokens[i] = u]
  ELSE 0

\* C7 as claimed: with cup_price_value and cup_price_unit both present, the
\* unit, its letter case and whitespace ignored, is matched against the set
\* {1kg, 100g, 1g, 1l, 100ml, 1ml} and the result is the value times 1, 10,
\* 1000, 1, 10, 1000; a unit outside the set gives null.
C7_ExactUnitSet ==
  fn = "normalizePricePerKg"
  /\ product.cup_price_value.t = "num" /\ product.cup_price_unit.t = "str" =>
    ret = IF SpecExactScale(SpecNormalised(product.cup_price_unit.s)) = 0 THEN Null
          ELSE JsMul(product.cup_price_value,
                     Whole(SpecExactScale(SpecNormalised(product.cup_price_unit.s))))

\* The factor of the first token the unit u contains; 0 when it contains none.
SpecSubstringScale(u) ==
  IF SpecFirstContained(u) = 0 THEN 0 ELSE SpecUnitScales[SpecFirstContained(u)]

\* C7 as amended: with a non-zero cup_price_value and a non-empty
\* cup_price_unit, the unit is lower-cased and trimmed at its two ends, and the
\* result is the value times the factor of the first of 1kg, 100g, 1g, 1l,
\* 100ml, 1ml (in this order) that the unit contains as a substring; it is
\* null when the unit contains none, when the value is 0 or missing, and when
\* the unit is empty or missing.
C7_SubstringMatch ==
  fn = "normalizePricePerKg" =>
    ret = IF /\ product.cup_price_value.t = "num" /\ product.cup_price_value.n # 0
             /\ product.cup_price_unit.t = "str"
             /\ SpecSubstringScale(trim(toLowerCase(product.cup_price_unit.s))) # 0
          THEN JsMul(product.cup_price_value,
                     Whole(SpecSubstringScale(trim(toLowerCase(product.cup_price_unit.s)))))
          ELSE Null

\* normalizePricePerKg of cup price 5 per "per 1kg" has returned 5: the unit is
\* outside the set and contains a token.
C7_Witness ==
  /\ fn = "normalizePricePerKg"
  /\ product.cup_price_value = Whole(5)
  /\ product.cup_price_unit = Str(<<"p", "e", "r", " ", "1", "k", "g">>)
  /\ ret = Whole(5)

\* C8 as claimed: computeMealMetrics returns null when the meal has no items
\* and when no item's product yields metrics, and no record it returns holds
\* a NaN.
C8_NullWithoutMetrics ==
  fn = "computeMealMetrics" =>
    /\ (\A i \in 1..Len(meal) : computeMetrics(meal[i].product) = Null) => ret = Null
    /\ ret # Null => \A k \in MealMetricKeys : ret.f[k].t # "nan"

\* computeMealMetrics has returned a record for a meal none of whose items
\* yields metrics.
C8_Witness ==
  /\ fn = "computeMealMetrics"
  /\ Len(meal) > 0
  /\ \A i \in 1..Len(meal) : computeMetrics(meal[i].product) = Null
  /\ ret # Null
  /\ \A k \in MealMetricKeys : ret.f[k] = NaN

\* Whether item it enters the mean of metric k: its product yields metrics
\* and the metric k of these is a number.
SpecInMean(m, k) == m # Null /\ m.f[k] # Null

\* The sums metric * quantity and quantity over the items that enter the mean.
RECURSIVE SpecMeanSums(_, _)
SpecEntered(sums, m, q) ==
  [num |-> JsAdd(sums.num, JsMul(m, q)), den |-> JsAdd(sums.den, q)]
SpecMeanSums(items, k) ==
  IF items = <<>> THEN [num |-> Whole(0), den |-> Whole(0)]
  ELSE IF SpecInMean(computeMetrics(items[Len(items)].product), k)
       THEN SpecEntered(SpecMeanSums(SubSeq(items, 1, Len(items) - 1), k),
                        computeMetrics(items[Len(items)].product).f[k],
                        items[Len(items)].quantity)
       ELSE SpecMeanSums(SubSeq(items, 1, Len(items) - 1), k)
SpecQuotient(sums) == JsDiv(sums.num, sums.den)

\* C9 as claimed: when an item yields metrics, each of proteinPerDollar,
\* kcalPerDollar and yieldIndex of computeMealMetrics is the mean of the
\* metric weighted by quantity, rounded to 2 decimals, over the items that
\* yield metrics; nothing enters the mean as a filled-in zero.
C9_WeightedMean ==
  /\ fn = "computeMealMetrics"
  /\ \E i \in 1..Len(meal) : computeMetrics(meal[i].product) # Null
  /\ \A i \in 1..Len(meal) : meal[i].quantity.t = "num" /\ meal[i].quantity.n > 0
  => \A k \in MealMetricKeys :
       (\E i \in 1..Len(meal) : SpecInMean(computeMetrics(meal[i].product), k)) =>
         ret.f[k] = ToFixed(SpecQuotient(SpecMeanSums(meal, k)), 2)

\* computeMealMetrics has averaged a product with protein per dollar and one
\* whose protein per dollar is null.
C9_Witness ==
  /\ fn = "computeMealMetrics"
  /\ meal = <<Item(ExampleProduct, Whole(150)), Item(NoProteinProduct, Whole(50))>>
  /\ computeMetrics(NoProteinProduct).f["proteinPerDollar"] = Null
  /\ computeMetrics(ExampleProduct).f["proteinPerDollar"] = Whole(20)
  /\ ret.f["proteinPerDollar"] = Whole(15)

\* a <= b on finite numbers.
SpecLe(a, b) == a.n * b.d <= b.n * a.d

\* C10 as claimed: classifyThreshold is "unknown" for null, undefined, NaN and
\* the two infinities; otherwise "good" for value <= good, "ok" for
\* good < value <= ok, "high" for value > ok.
C10_Bands ==
  fn = "classifyThreshold" =>
    ret = IF value.t # "num" THEN "unknown"
          ELSE IF SpecLe(value, thr.good) THEN "good"
          ELSE IF SpecLe(value, thr.ok) THEN "ok"
          ELSE "high"

\* classifyThreshold(+Infinity, {good: 120, ok: 400}) has returned "high".
C10_Witness ==
  /\ fn = "classifyThreshold"
  /\ value = PosInf
  /\ thr = Thresholds(Whole(120), Whole(400))
  /\ ret = "high"

\* a >= b on finite numbers.
SpecGe(a, b) == a.n * b.d >= b.n * a.d

\* C11 as claimed: classifyMinimum is "unknown" for null, undefined and every
\* non-finite value and when the minimums are missing; otherwise "good" for
\* value >= good, "ok" for ok <= value < good, "high" for value < ok.
C11_MinimumBands ==
  fn = "classifyMinimum" =>
    ret = IF value.t # "num" \/ thr = NoMinimums THEN "unknown"
          ELSE IF SpecGe(value, thr.good) THEN "good"
          ELSE IF SpecGe(value, thr.ok) THEN "ok"
          ELSE "high"

\* classifyMinimum(NaN, {good: 5, ok: 3}) has returned "high".
C11_Witness ==
  /\ fn = "classifyMinimum"
  /\ value = NaN
  /\ thr = Thresholds(Whole(5), Whole(3))
  /\ ret = "high"

\* A product that carries no nutrient data at all.
SpecNoNutrientData(p) ==
  \/ ~p.present
  \/ p.product_nutrients = <<>> /\ p.nutrition = NoMap /\ p.nutrients = NoMap

\* C12 as claimed: per100g returns a finite number for every product and
\* code (never a TypeError, null, undefined, NaN or an infinity), and 0 for a
\* product without nutrient data.
C12_Total ==
  fn = "per100g" =>
    /\ ret.t = "num"
    /\ SpecNoNutrientData(product) => ret = Whole(0)

\* per100g has returned Infinity for a relational amount that is Infinity.
C12_Witness ==
  /\ fn = "per100g"
  /\ nutrientCode = "protein"
  /\ product.present
  /\ product.product_nutrients = <<PN("protein", PosInf)>>
  /\ ret = PosInf

SpecIsRecord(r) == r # Null /\ r # Throw
SpecZero(x) == x.t = "num" /\ x.n = 0

ReportedFields == MetricsFields \ {"pricePer100g"}

\* C14 as claimed: every field of a record returned by computeMetrics
\* (pricePerKg, proteinPerDollar, kcalPerDollar, proteinToFatRatio,
\* proteinPerKcal, healthValue, yieldIndex, efficiency_g_per_dollar,
\* density_g_per_100kcal) is null or a number that is not NaN, also for
\* negative or non-numeric nutrient amounts and non-numeric health_star.
C14_NeverNaN ==
  fn = "computeMetrics" /\ SpecIsRecord(ret) =>
    \A k \in ReportedFields : ret.f[k].t \in {"null", "num", "inf", "ninf"}

\* computeMetrics has returned yieldIndex NaN for a product with protein 10
\* and energy_kcal -50 per 100 g.
C14_Witness ==
  /\ fn = "computeMetrics"
  /\ SpecIsRecord(ret)
  /\ per100g(product, "protein") = Whole(10)
  /\ per100g(product, "energy_kcal") = Whole(-50)
  /\ product.cup_price_value = Whole(5)
  /\ product.cup_price_unit = Str(<<"1", "k", "g">>)
  /\ ret.f["yieldIndex"] = NaN
  /\ ret.f["healthValue"] = Whole(0)

\* efficiency = protein100g / (pricePerKg / 10), density = (protein100g /
\* kcal100g) * 100, of a product with positive price, protein and kcal.
SpecEfficiency(p) ==
  JsDiv(per100g(p, "protein"), JsDiv(normalizePricePerKg(p), Whole(10)))
SpecDensity(p) ==
  JsMul(JsDiv(per100g(p, "protein"), per100g(p, "energy_kcal")), Whole(100))

\* min(1, x / c) for a positive x.
SpecLever(x, c) == IF x.n >= c * x.d THEN Whole(1) ELSE JsDiv(x, Whole(c))

\* min(1, efficiency / 20) * min(1, density / 25)
SpecLevers(p) ==
  JsMul(SpecLever(SpecEfficiency(p), 20), SpecLever(SpecDensity(p), 25))

\* y is the square root of x to 3 decimals: (y - 0.0005)^2 <= x < (y + 0.0005)^2,
\* for y = m / 1000.
SpecRootAt(m, x) ==
  /\ RatLe((2 * m - 1) * (2 * m - 1), 4000000, x.n, x.d)
  /\ ~RatLe((2 * m + 1) * (2 * m + 1), 4000000, x.n, x.d)
SpecIsRoot3(y, x) ==
  /\ y.t = "num"
  /\ 1000 % y.d = 0
  /\ IF y.n = 0 THEN ~RatLe(1, 4000000, x.n, x.d)
     ELSE SpecRootAt(y.n * (1000 \div y.d), x)

SpecYieldDomain(p) ==
  /\ p.present
  /\ SpecPositive(normalizePricePerKg(p))
  /\ SpecPositive(per100g(p, "protein"))
  /\ SpecPositive(per100g(p, "energy_kcal"))

\* C15: for a product with positive price per kg, protein and kcal,
\* yieldIndex is sqrt(min(1, efficiency / 20) * min(1, density / 25)) to 3
\* decimals, it lies in [0, 1], and it is exactly 1 when efficiency >= 20 and
\* density >= 25.
C15_YieldIndex ==
  fn = "computeMetrics" /\ SpecYieldDomain(product) =>
    /\ SpecIsRecord(ret)
    /\ SpecIsRoot3(ret.f["yieldIndex"], SpecLevers(product))
    /\ ret.f["yieldIndex"].n >= 0
    /\ ret.f["yieldIndex"].n <= ret.f["yieldIndex"].d
    /\ (SpecEfficiency(product).n >= 20 * SpecEfficiency(product).d
        /\ SpecDensity(product).n >= 25 * SpecDensity(product).d)
         => ret.f["yieldIndex"] = Whole(1)

\* computeMetrics has returned yieldIndex 1 for protein 100, kcal 100 and a
\* price of 50 per kg: efficiency is 20 and density 100.
C15_Witness ==
  /\ fn = "computeMetrics"
  /\ SpecYieldDomain(product)
  /\ SpecEfficiency(product) = Whole(20)
  /\ SpecDensity(product) = Whole(100)
  /\ ret.f["yieldIndex"] = Whole(1)

\* The fields of the totals record, as its type declares them.
SpecTotalsFields ==
  {"energy_kcal", "energy_kj", "protein", "fat_total", "fat_saturated",
   "carbohydrate", "sugars", "fiber", "sodium", "potassium", "calcium",
   "magnesium", "iron", "zinc", "vitamin_c", "vitamin_d", "vitamin_b12",
   "folate", "vitamin_a", "price_total"}

\* C16: aggregateMealTotals of a meal without items returns a record whose
\* every field, price_total included, is exactly 0; and every record it
\* returns has every field of the totals, each a number.
C16_ZeroItems ==
  fn = "aggregateMealTotals" =>
    /\ meal = <<>> =>
         ret # Throw /\ \A k \in SpecTotalsFields : ret.f[k] = Whole(0)
    /\ ret # Throw =>
         /\ DOMAIN ret.f = SpecTotalsFields
         /\ \A k \in SpecTotalsFields : IsNumeric(ret.f[k])

\* aggregateMealTotals has returned for the meal without items.
C16_Witness ==
  /\ fn = "aggregateMealTotals"
  /\ meal = <<>>
  /\ ret # Throw
  /\ ret.f["price_total"] = Whole(0)
  /\ ret.f["protein"] = Whole(0)

SpecMalformedPrice(p) ==
  \/ ~IsNullish(p.size) /\ p.size.t # "str"
  \/ ~IsNullish(p.cup_price_unit) /\ SpecCupPrice(p) = Null

\* C18 as claimed: a meal item with malformed nutrient or price data never
\* makes aggregateMealTotals raise, and every total is what the other items
\* give plus what the item itself resolves to: its per100g * quantity / 100
\* for a nutrient, 0 for a price that resolves through neither path.
C18_FailureLocality ==
  fn = "aggregateMealTotals" =>
    /\ ret # Throw
    /\ \A i \in 1..Len(meal) :
         SpecCounted(meal[i]) /\ SpecMalformedPrice(meal[i].product) =>
           /\ \A f \in NutrientSet :
                pre[f] = JsAdd(accumulateTotals(SpecWithout(meal, i))[f],
                               SpecContribution(meal[i], f))
           /\ SpecUnitPrice(meal[i].product) = Null =>
                ret.f["price_total"]
                  = aggregateMealTotals(SpecWithout(meal, i)).f["price_total"]

\* aggregateMealTotals has raised on a meal of a well-formed counted item and
\* a counted item whose size is a number.
C18_Witness ==
  /\ fn = "aggregateMealTotals"
  /\ Len(meal) = 2
  /\ meal[1] = Item(ExampleProduct, Whole(150))
  /\ meal[2] = Item(NumericSizeProduct, Whole(100))
  /\ ret = Throw

\* The item has a quantity: a number other than 0.
SpecHasQuantity(it) == it.quantity.t = "num" /\ it.quantity.n # 0

\* C19: mealItemNutrition returns null for an item without product or without
\* a quantity (zero, missing or not a number); for any other item it returns
\* a record of the 18 nutrients in which each one is
\* per100g(product, code) * quantity / 100 of that item, to 1 decimal.
C19_ItemNutrition ==
  fn = "mealItemNutrition" =>
    IF ~item.product.present \/ ~SpecHasQuantity(item) THEN ret = Null
    ELSE /\ ret # Null
         /\ DOMAIN ret.f = ItemFields
         /\ \A k \in ItemFields :
              ret.f[k] = ToFixed(SpecContribution(item, k), 1)

\* mealItemNutrition has returned the record of an item of -20 g of a product
\* with 20 g of protein per 100 g: -4 g of protein and nothing else.
C19_Witness ==
  /\ fn = "mealItemNutrition"
  /\ item.product.present
  /\ item.quantity = Num(-20, 1)
  /\ per100g(item.product, "protein") = Whole(20)
  /\ ret # Null
  /\ ret.f["protein"] = Num(-4, 1)
  /\ ret.f["sodium"] = Whole(0)

\* The codes the kilojoule value may be stored under.
SpecKjCodes == {"energy_kj", "energy", "energy-kj"}

\* The only nutrient data of the product is the value v under code k, as a
\* relational entry or as an entry of a flattened map.
SpecOnlyEntry(p, k, v) ==
  /\ p.present
  /\ \/ /\ p.product_nutrients = <<PN(k, v)>>
        /\ p.nutrition = NoMap /\ p.nutrients = NoMap
     \/ /\ p.product_nutrients = <<>>
        /\ \/ p.nutrition = OneKey(k, Entry(v, Undef)) /\ p.nutrients = NoMap
           \/ p.nutrition = NoMap /\ p.nutrients = OneKey(k, Entry(v, Undef))

\* C20 as claimed: per100g for energy_kcal, on a product without kilocalorie
\* entry whose only energy data is a positive kilojoule value v stored under
\* energy_kj, energy or energy-kj, is v / 4.184, never v itself and never 0.
C20_KjFallback ==
  fn = "per100g" /\ nutrientCode = "energy_kcal" =>
    \A k \in SpecKjCodes :
      SpecOnlyEntry(product, k, KJ_EXAMPLE) =>
        /\ ret = JsDiv(KJ_EXAMPLE, Num(4184, 1000))
        /\ ret # KJ_EXAMPLE
        /\ ret # Whole(0)

\* per100g for energy_kcal has returned the 418.4 kJ stored under the code
\* energy as they are.
C20_Witness ==
  /\ fn = "per100g"
  /\ nutrientCode = "energy_kcal"
  /\ SpecOnlyEntry(product, "energy", KJ_EXAMPLE)
  /\ ret = KJ_EXAMPLE

\* The four probes of a map entry, in the order they are made.
SpecProbes(e) ==
  IF e.p100.t = "obj" THEN <<e.p100.value, e.p100.amount, e.p100, e.value>>
  ELSE <<Undef, Undef, e.p100, e.value>>

\* The probe is a finite positive number.
SpecPositiveProbe(x) ==
  x.t \in {"num", "str", "nan", "inf", "ninf"} /\ PositiveFinite(JsNumber(x))

\* The first probe from i on that is a finite positive number, <<>> if none.
RECURSIVE SpecFirstProbe(_, _)
SpecFirstProbe(probes, i) ==
  IF i > Len(probes) THEN <<>>
  ELSE IF SpecPositiveProbe(probes[i]) THEN <<JsNumber(probes[i])>>
  ELSE SpecFirstProbe(probes, i + 1)

\* The product has no relational entry and a nutrition map with the key k.
SpecMapOnly(p, k) ==
  /\ p.present /\ p.product_nutrients = <<>>
  /\ p.nutrition.t = "map" /\ k \in DOMAIN p.nutrition.m

\* C21 as claimed: per100g on the nutrition map returns, for the entry of the
\* key, the first of per_100.value, per_100.amount, per_100 and value that is
\* a finite positive number, so that a later probe is used when an earlier one
\* is absent, null, zero or not a number.
C21_ProbeOrder ==
  fn = "per100g" /\ nutrientCode = "protein" /\ SpecMapOnly(product, "protein")
  /\ SpecFirstProbe(SpecProbes(product.nutrition.m["protein"]), 1) # <<>> =>
    ret = SpecFirstProbe(SpecProbes(product.nutrition.m["protein"]), 1)[1]

\* per100g has returned 0 for a protein entry whose per_100.value is 0 and
\* whose per_100.amount is 9.
C21_Witness ==
  /\ fn = "per100g" /\ nutrientCode = "protein"
  /\ SpecMapOnly(product, "protein")
  /\ product.nutrition.m["protein"] = Entry(Obj(Whole(0), Whole(9)), Whole(4))
  /\ ret = Whole(0)

\* The entry's code, lower-cased, is the requested code or one of its aliases.
SpecMatches(e, code) == e.code # "" /\ InSeq(LowerCode(e.code), targetsOf(code))

\* The first entry of the relational list from i on that matches, <<>> if none.
RECURSIVE SpecFirstMatch(_, _, _)
SpecFirstMatch(arr, code, i) ==
  IF i > Len(arr) THEN <<>>
  ELSE IF SpecMatches(arr[i], code) THEN <<arr[i]>>
  ELSE SpecFirstMatch(arr, code, i + 1)

\* The amount coerced to a number, 0 when the coercion is not finite.
SpecCoerced(a) == IF NumberIsFinite(JsNumber(a)) THEN JsNumber(a) ELSE Whole(0)

\* C22 as claimed: when product_nutrients holds an entry whose lower-cased
\* code is in the alias set, per100g returns that entry's amount_per_100g
\* coerced to a number, 0 when the coercion is not finite, whatever the
\* nutrition map holds.
C22_RelationalFirst ==
  fn = "per100g" /\ product.present
  /\ SpecFirstMatch(product.product_nutrients, nutrientCode, 1) # <<>> =>
    ret = SpecCoerced(SpecFirstMatch(product.product_nutrients, nutrientCode, 1)[1].amount)

\* per100g has returned Infinity for a relational protein entry of amount
\* Infinity, on a product whose nutrition map holds protein as well.
C22_Witness ==
  /\ fn = "per100g" /\ nutrientCode = "protein" /\ product.present
  /\ product.product_nutrients = <<PN("protein", PosInf)>>
  /\ product.nutrition = OneKey("protein", Entry(Obj(Whole(8), Whole(9)), Whole(4)))
  /\ ret = PosInf

\* The codes that resolve for a requested code: the code and the aliases the
\* claim names for it.
SpecAliasSet(code) ==
  CASE code = "fat_total" -> {"fat_total", "fat", "total_fat", "fats_total"}
    [] code = "sodium" -> {"sodium", "salt", "na"}
    [] OTHER -> {code}

\* Codes an entry is stored under, in several letter cases.
SpecStoredCodes ==
  {"fat", "Fat", "total_fat", "FATS_TOTAL", "salt", "SALT", "na", "Na",
   "fat_saturated"}

\* C23 as claimed: per100g for fat_total or sodium, on a product whose only
\* entry is stored under a code k, in the relational list or in a nutrition
\* map, returns the entry's amount when k in lower case is the code or one of
\* its aliases, whatever the letter case of k, and 0 when it is not.
C23_AliasesAnyCase ==
  fn = "per100g" /\ nutrientCode \in {"fat_total", "sodium"} =>
    \A k \in SpecStoredCodes :
      SpecOnlyEntry(product, k, Whole(5)) =>
        ret = IF LowerCode(k) \in SpecAliasSet(nutrientCode)
              THEN Whole(5) ELSE Whole(0)

\* per100g for fat_total has returned 0 for a nutrition map whose only key
\* is Fat.
C23_Witness ==
  /\ fn = "per100g" /\ nutrientCode = "fat_total"
  /\ SpecOnlyEntry(product, "Fat", Whole(5))
  /\ product.product_nutrients = <<>>
  /\ ret = Whole(0)

\* C24: aggregateMealTotals rounds once, after the items have been summed:
\* energy_kcal and energy_kj are the sums of the unrounded contributions
\* rounded to the nearest integer, protein that sum to 1 decimal, price_total
\* the sum of the unrounded prices to 2 decimals, and every other field is the
\* unrounded sum itself.
C24_RoundOnce ==
  fn = "aggregateMealTotals" /\ ret # Throw =>
    /\ ret.f["energy_kcal"] = MathRound(SpecSum(meal, "energy_kcal"))
    /\ ret.f["energy_kj"] = MathRound(SpecSum(meal, "energy_kj"))
    /\ ret.f["protein"] = ToFixed(SpecSum(meal, "protein"), 1)
    /\ ret.f["price_total"] = ToFixed(SpecPriceSum(meal), 2)
    /\ \A f \in UnroundedFields : ret.f[f] = SpecSum(meal, f)

\* aggregateMealTotals has returned totals whose energy, protein or price
\* differs from the sum of the contributions rounded one by one, and an
\* unrounded field with more than one decimal.
C24_Witness ==
  /\ fn = "aggregateMealTotals" /\ ret # Throw /\ Len(meal) = 2
  /\ \A i \in 1..2 : SpecCounted(meal[i])
  /\ \/ ret.f["protein"]
          # JsAdd(ToFixed(SpecContribution(meal[1], "protein"), 1),
                  ToFixed(SpecContribution(meal[2], "protein"), 1))
     \/ ret.f["energy_kj"]
          # JsAdd(MathRound(SpecContribution(meal[1], "energy_kj")),
                  MathRound(SpecContribution(meal[2], "energy_kj")))
  /\ \E f \in UnroundedFields : ToFixed(ret.f[f], 1) # ret.f[f]

\* The permutations of 1..n, and the items in the order a permutation gives.
SpecPermutations(n) ==
  {f \in [1..n -> 1..n] : \A i, j \in 1..n : f[i] = f[j] => i = j}
SpecPermuted(items, f) == [i \in 1..Len(items) |-> items[f[i]]]

\* C25 as claimed: for every meal and every permutation of its items, every
\* field of the totals of the permuted meal is identical to that of the meal.
C25_OrderIndependent ==
  fn = "aggregateMealTotals" =>
    \A f \in SpecPermutations(Len(meal)) :
      aggregateDoubles(SpecPermuted(meal, f)) = ret

\* aggregateMealTotals has returned fat_total 0.6000000000000001 for items of
\* 0.1, 0.2 and 0.3 g of fat, and returns 0.6 for the same items reversed.
C25_Witness ==
  /\ fn = "aggregateMealTotals"
  /\ meal = <<Item(FatProduct(Num(1, 10)), Whole(100)),
              Item(FatProduct(Num(2, 10)), Whole(100)),
              Item(FatProduct(Num(3, 10)), Whole(100))>>
  /\ ret.f["fat_total"] = Double(20132659, 53687092, -1)
  /\ aggregateDoubles(<<meal[3], meal[2], meal[1]>>).f["fat_total"]
       = Double(20132659, 53687091, -1)

\* aggregateMealTotals skips the price of the item: the item is not counted
\* or its product has no unit price.
SpecPriceSkipped(it) == ~SpecCounted(it) \/ SpecUnitPrice(it.product) = Null

\* C26 as claimed: for every product and every grams value, the price of
\* useMealItemPrice to 2 decimals is the price_total of aggregateMealTotals on
\* the meal of that one item, and unitPricePerGram is null exactly when
\* aggregateMealTotals skips the price of the item.
C26_HookMatchesTotals ==
  fn = "useMealItemPrice" /\ ret # Throw /\ aggregateMealTotals(<<item>>) # Throw =>
    /\ ToFixed(ret.f["price"], 2) = aggregateMealTotals(<<item>>).f["price_total"]
    /\ ret.f["unitPricePerGram"] = Null <=> SpecPriceSkipped(item)

\* useMealItemPrice has returned the price -0.2 and the unit price 0.01 for
\* -20 g of a product at 10 per kg, on which aggregateMealTotals gives 0.
C26_Witness ==
  /\ fn = "useMealItemPrice"
  /\ item = Item(ExampleProduct, Num(-20, 1))
  /\ ret # Throw
  /\ ret.f["price"] = Num(-2, 10)
  /\ ret.f["unitPricePerGram"] = Num(1, 100)
  /\ aggregateMealTotals(<<item>>).f["price_total"] = Whole(0)

\* C27: the cup-price unit tables of aggregateMealTotals and of
\* normalizePricePerKg agree: a product's cup price resolves in the one
\* exactly when it resolves in the other, one raises exactly when the other
\* does, and when it resolves the price per gram of aggregateMealTotals is
\* normalizePricePerKg(product) / 1000, as rational numbers.
C27_TablesAgree ==
  fn = "normalizePricePerKg" =>
    /\ ret = Throw <=> cupPricePerGram(product) = Throw
    /\ ret = Null <=> cupPricePerGram(product) = Null
    /\ ret # Throw /\ ret # Null =>
         cupPricePerGram(product) = JsDiv(ret, Whole(1000))

\* normalizePricePerKg has returned 2.5 for a cup price of 2.5 per "1g/1kg",
\* a unit that contains two tokens, and aggregateMealTotals prices the
\* product at 0.0025 per gram.
C27_Witness ==
  /\ fn = "normalizePricePerKg"
  /\ product.cup_price_value = Num(5, 2)
  /\ product.cup_price_unit = Str(<<"1", "g", "/", "1", "k", "g">>)
  /\ ret = Num(5, 2)
  /\ cupPricePerGram(product) = Num(25, 10000)

\* All items of the meals of a day, in one meal.
RECURSIVE SpecAllItems(_)
SpecAllItems(ems) ==
  IF ems = <<>> THEN <<>> ELSE ems[1] \o SpecAllItems(Tail(ems))

\* C28 as claimed: for every list of eaten meals, the totals summed meal by
\* meal, field by field, are the totals of aggregateMealTotals on the one
\* meal that holds all items of those meals.
C28_DayAdditive ==
  fn = "sumDayTotals" /\ eatenMeals # <<>> =>
    ret = aggregateMealTotals(SpecAllItems(eatenMeals))

\* sumDayTotals has returned protein 12.6 and energy_kj 524 for two meals of
\* 62.5 g of the same product each, for which one meal of both items gives
\* protein 12.5 and energy_kj 523.
C28_Witness ==
  /\ fn = "sumDayTotals"
  /\ eatenMeals = << <<Item(PaddedCupProduct, Num(125, 2))>>,
                     <<Item(PaddedCupProduct, Num(125, 2))>> >>
  /\ ret.f["protein"] = Num(126, 10)
  /\ ret.f["energy_kj"] = Whole(524)
  /\ aggregateMealTotals(SpecAllItems(eatenMeals)).f["protein"] = Num(125, 10)
  /\ aggregateMealTotals(SpecAllItems(eatenMeals)).f["energy_kj"] = Whole(523)

\* Every per-100g amount and every price the items' products resolve to is
\* >= 0.
SpecNonNegative(items) ==
  \A i \in 1..Len(items) :
    /\ \A f \in NutrientSet : JsGe(per100g(items[i].product, f), Whole(0))
    /\ SpecUnitPrice(items[i].product) = Null
         \/ JsGe(SpecUnitPrice(items[i].product), Whole(0))

SpecNegativeQuantity(it) == it.quantity.t = "num" /\ it.quantity.n < 0

\* C29: an item with a quantity < 0 adds nothing to the totals of
\* aggregateMealTotals, neither to a nutrient nor to the price, and when all
\* per-100g amounts and prices the products resolve to are >= 0 every field
\* of the totals is >= 0, whatever the quantities of the items.
C29_NegativeQuantity ==
  fn = "aggregateMealTotals" /\ ret # Throw =>
    /\ \A i \in 1..Len(meal) :
         SpecNegativeQuantity(meal[i]) =>
           /\ \A f \in NutrientSet : pre[f] = SpecSum(SpecWithout(meal, i), f)
           /\ ret.f["price_total"] = ToFixed(SpecPriceSum(SpecWithout(meal, i)), 2)
    /\ SpecNonNegative(meal) =>
         \A k \in DOMAIN ret.f : JsGe(ret.f[k], Whole(0))

\* aggregateMealTotals has returned the totals of 150 g of a product for a
\* meal of 150 g and -20 g of it.
C29_Witness ==
  /\ fn = "aggregateMealTotals" /\ ret # Throw
  /\ meal = <<Item(ExampleProduct, Whole(150)), Item(ExampleProduct, Num(-20, 1))>>
  /\ SpecNonNegative(meal)
  /\ ret.f["protein"] = Whole(30)
  /\ ret.f["energy_kcal"] = Whole(300)
  /\ ret.f["price_total"] = Num(15, 10)

\* C30 as claimed: under any interleaving of the requests, the interceptor
\* sends a request again at most once, so that no request is sent more than
\* twice.
C30_RetryBounded ==
  \A r \in DOMAIN requests : requests[r].sends <= 2

\* A request has been sent three times: its first retry failed with CSRF
\* after the error of the other request had reset the flag.
C30_Witness ==
  /\ requests # <<>>
  /\ requests[1].sends = 3
  /\ requests[2].pc = "rejected" /\ requests[2].sends = 1

====
